---- MODULE Spec2Model ----
(***************************************************************************)
(* gh-identity: binding store, resolution engine, gitconfig synchronizer   *)
(* and the bind / unbind / profile commands that keep them together.       *)
(*                                                                         *)
(* Strings are sequences of one-character tokens; a path is such a         *)
(* sequence with "/" as the separator, so that string prefixes and path    *)
(* components are different things, as in the Go code.                     *)
(***************************************************************************)
EXTENDS Integers, Sequences, FiniteSets, TLC

VARIABLES profiles, defaultProfile, bindings, gitconfig, fragments, query, result, last

vars == <<profiles, defaultProfile, bindings, gitconfig, fragments, query, result, last>>

---------------------------------------------------------------------------
(* Bounds of the model *)

MaxBindings == 2

MaxOps == 3

---------------------------------------------------------------------------
(* Strings and paths: path/filepath and strings helpers *)

Sep == "/"

HasPrefix(s, p) == Len(p) <= Len(s) /\ SubSeq(s, 1, Len(p)) = p

HasSuffix(s, p) == Len(p) <= Len(s) /\ SubSeq(s, Len(s) - Len(p) + 1, Len(s)) = p

RECURSIVE Count(_, _)
Count(s, c) ==
    IF s = <<>> THEN 0
    ELSE (IF Head(s) = c THEN 1 ELSE 0) + Count(Tail(s), c)

\* The components of s between separators (empty components included).
RECURSIVE SplitFrom(_, _)
SplitFrom(s, cur) ==
    IF s = <<>> THEN <<cur>>
    ELSE IF Head(s) = Sep THEN <<cur>> \o SplitFrom(Tail(s), <<>>)
    ELSE SplitFrom(Tail(s), Append(cur, Head(s)))

Split(s) == SplitFrom(s, <<>>)

IsAbs(s) == Len(s) > 0 /\ s[1] = Sep

Dot == <<".">>

DotDot == <<".", ".">>

\* filepath.Clean's treatment of the components: "" and "." dropped, ".."
\* removes the component before it (at the root it is dropped, in a relative
\* path with nothing before it, it is kept).
RECURSIVE CleanComps(_, _, _)
CleanComps(comps, out, rooted) ==
    IF comps = <<>> THEN out
    ELSE LET c == Head(comps)
             rest == Tail(comps)
         IN  IF c = <<>> \/ c = Dot THEN CleanComps(rest, out, rooted)
             ELSE IF c = DotDot
                  THEN IF out # <<>> /\ out[Len(out)] # DotDot
                       THEN CleanComps(rest, SubSeq(out, 1, Len(out) - 1), rooted)
                       ELSE IF rooted THEN CleanComps(rest, out, rooted)
                       ELSE CleanComps(rest, Append(out, c), rooted)
                  ELSE CleanComps(rest, Append(out, c), rooted)

RECURSIVE JoinComps(_)
JoinComps(comps) ==
    IF comps = <<>> THEN <<>>
    ELSE IF Len(comps) = 1 THEN comps[1]
    ELSE comps[1] \o <<Sep>> \o JoinComps(Tail(comps))

Clean(s) ==
    LET rooted == IsAbs(s)
        body == JoinComps(CleanComps(Split(s), <<>>, rooted))
    IN  IF rooted THEN <<Sep>> \o body
        ELSE IF body = <<>> THEN Dot ELSE body

\* filepath.Join of two elements: empty elements are ignored, the rest is
\* joined with the separator and cleaned.
Join2(a, b) ==
    IF a = <<>> /\ b = <<>> THEN <<>>
    ELSE IF b = <<>> THEN Clean(a)
    ELSE IF a = <<>> THEN Clean(b)
    ELSE Clean(a \o <<Sep>> \o b)

---------------------------------------------------------------------------
(* The process environment: $HOME and the working directory *)

HomeDir == <<"/", "a">>

NoHome == <<>>

Homes == {HomeDir, NoHome}

Cwd == <<"/", "a", "/", "b">>

Abs(p) == IF IsAbs(p) THEN Clean(p) ELSE Join2(Cwd, p)

Tilde == <<"~">>

\* config.ExpandPath: [err, path]; err when the home directory is needed
\* and cannot be resolved.
ExpandPath(p, home) ==
    IF HasPrefix(p, <<"~", "/">>) \/ p = Tilde
    THEN IF home = NoHome
         THEN [err |-> TRUE, path |-> <<>>]
         ELSE [err |-> FALSE, path |-> Clean(Abs(Join2(home, Tail(p))))]
    ELSE [err |-> FALSE, path |-> Clean(Abs(p))]

---------------------------------------------------------------------------
(* Resolution engine: internal/resolve *)

\* A raw-prefix variant of isSubpath (no separator appended to the parent).
isSubpathRawPrefix(child, parent) ==
    LET c == Clean(child)
        p == Clean(parent)
    IN  c = p \/ HasPrefix(c, p)

\* resolve.isSubpath
isSubpath(child, parent) ==
    LET c == Clean(child)
        p == Clean(parent)
    IN  c = p \/ HasPrefix(c, p \o <<Sep>>)

NoMatch == [match |-> "", path |-> <<>>, depth |-> -1]

\* The loop of ForDirectory over bindings[i..]: best is (bestMatch, bestPath,
\* bestDepth) so far. A binding whose path does not expand is skipped.
RECURSIVE ScanBindings(_, _, _, _, _)
ScanBindings(expanded, bs, i, best, home) ==
    IF i > Len(bs) THEN best
    ELSE LET b == bs[i]
             e == ExpandPath(b.path, home)
         IN  IF e.err THEN ScanBindings(expanded, bs, i + 1, best, home)
             ELSE IF isSubpath(expanded, e.path)
                     /\ Count(e.path, Sep) > best.depth
                  THEN ScanBindings(expanded, bs, i + 1,
                           [match |-> b.profile, path |-> b.path,
                            depth |-> Count(e.path, Sep)], home)
                  ELSE ScanBindings(expanded, bs, i + 1, best, home)

\* A variant of ForDirectory that flags every fallback as the default.
ForDirectoryFlagAlways(dir, bs, def, home) ==
    LET e == ExpandPath(dir, home)
        best == ScanBindings(e.path, bs, 1, NoMatch, home)
    IN  IF e.err
        THEN [err |-> TRUE, Profile |-> "", BoundPath |-> <<>>, IsDefault |-> FALSE]
        ELSE IF best.match # ""
        THEN [err |-> FALSE, Profile |-> best.match, BoundPath |-> best.path,
              IsDefault |-> FALSE]
        ELSE [err |-> FALSE, Profile |-> def, BoundPath |-> <<>>,
              IsDefault |-> TRUE]

\* resolve.ForDirectory: the Result and whether an error is returned.
ForDirectory(dir, bs, def, home) ==
    LET e == ExpandPath(dir, home)
        best == ScanBindings(e.path, bs, 1, NoMatch, home)
    IN  IF e.err
        THEN [err |-> TRUE, Profile |-> "", BoundPath |-> <<>>, IsDefault |-> FALSE]
        ELSE IF best.match # ""
        THEN [err |-> FALSE, Profile |-> best.match, BoundPath |-> best.path,
              IsDefault |-> FALSE]
        ELSE [err |-> FALSE, Profile |-> def, BoundPath |-> <<>>,
              IsDefault |-> (def # "")]

---------------------------------------------------------------------------
(* Inputs of the resolution specification *)

Root == <<"/">>

PathA == <<"/", "a">>

PathAB == <<"/", "a", "/", "b">>

PathABC == <<"/", "a", "/", "b", "c">>

PathABX == <<"/", "a", "/", "b", "/", "x">>

\* Paths as a bindings.yml may hold them (the README's example stores ~ paths).
StoredPaths == {Root, PathA, PathAB, PathABC, <<"~", "/", "b">>}

\* Directories a caller may ask about ($PWD, an argument, a relative path).
QueryDirs == {Root, PathA, PathAB, PathABC, PathABX,
              <<"/", "a", "/", "b", "/">>, Tilde, <<"x">>}

ProfileNames == {"work", "personal"}

BindingValues == [path : StoredPaths, profile : ProfileNames \cup {""}]

BindingSeqs == UNION {[1..n -> BindingValues] : n \in 0..MaxBindings}

NoResult == [err |-> FALSE, Profile |-> "none", BoundPath |-> <<>>, IsDefault |-> FALSE,
             pending |-> TRUE]

NoOp == [op |-> "none", n |-> 0]

\* A file that does not exist.
Absent == [exists |-> FALSE, lines |-> <<>>, nl |-> FALSE]

InitResolve ==
    /\ bindings \in BindingSeqs
    /\ defaultProfile \in {"", "personal"}
    /\ query \in [dir : QueryDirs, home : Homes]
    /\ result = NoResult
    /\ profiles = {}
    /\ gitconfig = Absent
    /\ fragments = {}
    /\ last = NoOp

\* One call of resolve.ForDirectory on the loaded documents.
Resolve ==
    /\ result = NoResult
    /\ result' = ForDirectory(query.dir, bindings, defaultProfile, query.home)
    /\ UNCHANGED <<profiles, defaultProfile, bindings, gitconfig, fragments, query, last>>

NextResolve == Resolve

SpecResolve == InitResolve /\ [][NextResolve]_vars

---------------------------------------------------------------------------
(* Properties of the resolution engine *)

\* The components of a normalized absolute path; the root has none.
PathComps(p) == SelectSeq(Split(p), LAMBDA c : c # <<>>)

\* P is D or an ancestor of D in the directory hierarchy.
AncestorOrSelf(P, D) == HasPrefix(PathComps(D), PathComps(P))

Resolved == result # NoResult

QDir == ExpandPath(query.dir, query.home)

Norm(i) == ExpandPath(bindings[i].path, query.home)

AllExpand == \A i \in 1..Len(bindings) : ~Norm(i).err

\* The store invariant: at most one binding per normalized path.
UniqueNorm ==
    \A i, j \in 1..Len(bindings) : i # j => Norm(i).path # Norm(j).path

NamedProfiles == \A i \in 1..Len(bindings) : bindings[i].profile # ""

\* The bindings that match the query directory by the hierarchy.
Matching == {i \in 1..Len(bindings) : ~Norm(i).err /\ AncestorOrSelf(Norm(i).path, QDir.path)}

\* C1: deepest match. Among the bindings whose path is the query directory
\* or an ancestor of it, ForDirectory returns the profile and path of the one
\* with the most components, whatever the order of the store (stated for
\* stores that keep one binding per path and name a profile in each).
C1_DeepestMatch ==
    (Resolved /\ ~QDir.err /\ AllExpand /\ UniqueNorm /\ NamedProfiles /\ Matching # {})
        => \E i \in Matching :
             /\ \A j \in Matching :
                    Len(PathComps(Norm(j).path)) <= Len(PathComps(Norm(i).path))
             /\ result.Profile = bindings[i].profile
             /\ result.BoundPath = bindings[i].path
             /\ ~result.err

\* The string-prefix case of C2: binding i's path is a raw prefix of the
\* directory without being the directory or an ancestor of it.
RawPrefixOnly(i) ==
    /\ ~Norm(i).err
    /\ ~QDir.err
    /\ HasPrefix(QDir.path, Norm(i).path)
    /\ ~AncestorOrSelf(Norm(i).path, QDir.path)

\* C2: prefix correctness. A binding whose path is only a string prefix of
\* the directory does not match and is never the one selected; with bindings
\* at /a/b and /a/bc, /a/b/x resolves to /a/b.
C2_PrefixCorrectness ==
    Resolved =>
        /\ \A i \in 1..Len(bindings) :
               RawPrefixOnly(i) =>
                   /\ ~isSubpath(QDir.path, Norm(i).path)
                   /\ (UniqueNorm /\ AllExpand) => result.BoundPath # bindings[i].path
        /\ ( /\ {bindings[i].path : i \in 1..Len(bindings)} = {PathAB, PathABC}
             /\ NamedProfiles
             /\ query.dir = PathABX )
           => result.BoundPath = PathAB

\* C2's case has happened: /a/bc was resolved against a store binding /a/b.
C2_Witness ==
    /\ Resolved
    /\ \E i \in 1..Len(bindings) : RawPrefixOnly(i) /\ bindings[i].profile # ""
    /\ query.dir = PathABC

\* C3: match completeness. A single binding at P (the root included) matches
\* every directory that is P or below it, and ForDirectory returns its
\* profile and path with IsDefault false.
C3_MatchCompleteness ==
    (Resolved /\ ~QDir.err /\ Len(bindings) = 1 /\ NamedProfiles /\ Matching = {1})
        => /\ isSubpath(QDir.path, Norm(1).path)
           /\ result.Profile = bindings[1].profile
           /\ result.BoundPath = bindings[1].path
           /\ ~result.IsDefault
           /\ ~result.err

\* C4: no-match outcome. When no binding matches the directory the result is
\* the default name, an empty matched path, IsDefault exactly when the
\* default is non-empty, and no error.
C4_NoMatchOutcome ==
    (Resolved /\ ~QDir.err /\ Matching = {})
        => /\ ~result.err
           /\ result.Profile = defaultProfile
           /\ result.BoundPath = <<>>
           /\ result.IsDefault = (defaultProfile # "")

\* C4's case has happened: bindings exist, none matches, no default is set.
C4_Witness ==
    /\ Resolved
    /\ ~QDir.err
    /\ Len(bindings) > 0
    /\ Matching = {}
    /\ defaultProfile = ""
    /\ result.Profile = ""
    /\ ~result.IsDefault

---------------------------------------------------------------------------
(* Binding store: internal/config/bindings.go *)

\* The first index of bs whose expanded path is `expanded`, or 0; an entry
\* whose path does not expand is passed over.
RECURSIVE IndexOfPath(_, _, _, _)
IndexOfPath(bs, i, expanded, home) ==
    IF i > Len(bs) THEN 0
    ELSE LET e == ExpandPath(bs[i].path, home)
         IN  IF ~e.err /\ e.path = expanded THEN i
             ELSE IndexOfPath(bs, i + 1, expanded, home)

\* A variant of AddBinding that compares the stored path with the argument
\* as given, not with its expanded form.
AddBindingRawCompare(bs, dirPath, profile, home) ==
    LET e == ExpandPath(dirPath, home)
        hits == {i \in 1..Len(bs) : bs[i].path = dirPath}
    IN  IF e.err THEN [err |-> TRUE, bindings |-> bs]
        ELSE IF hits # {}
        THEN [err |-> FALSE,
              bindings |-> [bs EXCEPT ![CHOOSE i \in hits : \A j \in hits : i <= j].profile = profile]]
        ELSE [err |-> FALSE,
              bindings |-> Append(bs, [path |-> e.path, profile |-> profile])]

\* A variant of AddBinding that re-inserts a replaced entry at the end.
AddBindingMoveToEnd(bs, dirPath, profile, home) ==
    LET e == ExpandPath(dirPath, home)
        i == IndexOfPath(bs, 1, e.path, home)
    IN  IF e.err THEN [err |-> TRUE, bindings |-> bs]
        ELSE IF i # 0
        THEN [err |-> FALSE,
              bindings |-> Append(SubSeq(bs, 1, i - 1) \o SubSeq(bs, i + 1, Len(bs)),
                                  [path |-> bs[i].path, profile |-> profile])]
        ELSE [err |-> FALSE,
              bindings |-> Append(bs, [path |-> e.path, profile |-> profile])]

\* BindingsFile.AddBinding: [err, bindings]
AddBinding(bs, dirPath, profile, home) ==
    LET e == ExpandPath(dirPath, home)
        i == IndexOfPath(bs, 1, e.path, home)
    IN  IF e.err THEN [err |-> TRUE, bindings |-> bs]
        ELSE IF i # 0
        THEN [err |-> FALSE, bindings |-> [bs EXCEPT ![i].profile = profile]]
        ELSE [err |-> FALSE,
              bindings |-> Append(bs, [path |-> e.path, profile |-> profile])]

\* A variant of RemoveBinding that reports no error for an unbound path.
RemoveBindingSilent(bs, dirPath, home) ==
    LET e == ExpandPath(dirPath, home)
        i == IndexOfPath(bs, 1, e.path, home)
    IN  IF e.err THEN [err |-> TRUE, bindings |-> bs]
        ELSE IF i # 0
        THEN [err |-> FALSE,
              bindings |-> SubSeq(bs, 1, i - 1) \o SubSeq(bs, i + 1, Len(bs))]
        ELSE [err |-> FALSE, bindings |-> bs]

\* BindingsFile.RemoveBinding: [err, bindings]
RemoveBinding(bs, dirPath, home) ==
    LET e == ExpandPath(dirPath, home)
        i == IndexOfPath(bs, 1, e.path, home)
    IN  IF e.err THEN [err |-> TRUE, bindings |-> bs]
        ELSE IF i # 0
        THEN [err |-> FALSE,
              bindings |-> SubSeq(bs, 1, i - 1) \o SubSeq(bs, i + 1, Len(bs))]
        ELSE [err |-> TRUE, bindings |-> bs]

\* BindingsFile.FindBinding: the profile bound to exactly this path, or "".
FindBinding(bs, dirPath, home) ==
    LET e == ExpandPath(dirPath, home)
        i == IndexOfPath(bs, 1, e.path, home)
    IN  IF e.err \/ i = 0 THEN "" ELSE bs[i].profile

\* Paths as a caller may give them: absolute, with a trailing separator,
\* with "..", under ~, relative to the working directory.
ArgPaths == {PathA, PathAB, <<"/", "a", "/", "b", "/", ".", ".">>,
             <<"~", "/", "b">>, <<"x">>}

InitStore ==
    /\ bindings = <<>>
    /\ last = NoOp
    /\ profiles = {}
    /\ defaultProfile = ""
    /\ gitconfig = Absent
    /\ fragments = {}
    /\ query = [dir |-> Root, home |-> HomeDir]
    /\ result = NoResult

\* A call of AddBinding on the in-memory store.
StoreAdd ==
    \E p \in ArgPaths, n \in ProfileNames, h \in Homes :
        LET r == AddBinding(bindings, p, n, h)
        IN  /\ bindings' = r.bindings
            /\ last' = [op |-> "AddBinding", path |-> p, profile |-> n, home |-> h,
                        err |-> r.err, pre |-> bindings, n |-> 0]
            /\ UNCHANGED <<profiles, defaultProfile, gitconfig, fragments, query, result>>

\* A call of RemoveBinding on the in-memory store.
StoreRemove ==
    \E p \in ArgPaths, h \in Homes :
        LET r == RemoveBinding(bindings, p, h)
        IN  /\ bindings' = r.bindings
            /\ last' = [op |-> "RemoveBinding", path |-> p, profile |-> "", home |-> h,
                        err |-> r.err, pre |-> bindings, n |-> 0]
            /\ UNCHANGED <<profiles, defaultProfile, gitconfig, fragments, query, result>>

NextStore == StoreAdd \/ StoreRemove

SpecStore == InitStore /\ [][NextStore]_vars

\* The matching bindings with the most components.
Deepest ==
    {i \in Matching :
        \A j \in Matching :
            Len(PathComps(Norm(j).path)) <= Len(PathComps(Norm(i).path))}

\* C18: deterministic tie-break. When two or more matching bindings have the
\* same, greatest depth, ForDirectory returns the profile and path of the
\* one that comes first in the binding sequence.
C18_FirstWinsTie ==
    (Resolved /\ ~QDir.err /\ NamedProfiles /\ Cardinality(Deepest) >= 2)
        => LET first == CHOOSE i \in Deepest : \A j \in Deepest : i <= j
           IN  /\ ~result.err
               /\ result.Profile = bindings[first].profile
               /\ result.BoundPath = bindings[first].path
               /\ ~result.IsDefault

\* C28: a matching binding always wins over the default. When at least one
\* binding matches the directory, the result is the profile and path of a
\* matching binding with IsDefault false, whatever name that binding stores
\* (the empty one included) and whatever the default is; the default is
\* used only when no binding matches.
C28_BindingBeatsDefault ==
    (Resolved /\ ~QDir.err) =>
        /\ Matching # {} =>
               /\ ~result.err /\ ~result.IsDefault
               /\ \E i \in Matching :
                      /\ result.Profile = bindings[i].profile
                      /\ result.BoundPath = bindings[i].path
        /\ result.IsDefault => Matching = {}

---------------------------------------------------------------------------
(* The binding store as loaded from a document *)

\* Binding documents as the README shows them, with paths under ~.
DocBindings ==
    { <<>>,
      <<[path |-> <<"~", "/", "b">>, profile |-> "work"]>>,
      <<[path |-> PathA, profile |-> "work"],
        [path |-> <<"~", "/", "b">>, profile |-> "personal"]>> }

\* The store as loaded from such a document.
InitStoreDoc ==
    /\ bindings \in DocBindings
    /\ last = NoOp
    /\ profiles = {}
    /\ defaultProfile = ""
    /\ gitconfig = Absent
    /\ fragments = {}
    /\ query = [dir |-> Root, home |-> HomeDir]
    /\ result = NoResult

SpecStoreDoc == InitStoreDoc /\ [][NextStore]_vars

---------------------------------------------------------------------------
(* Properties of the binding store *)

\* The normalized form of a stored path (stored paths are absolute, so the
\* home directory plays no part).
Normalized(p) == ExpandPath(p, HomeDir).path

\* C9: binding uniqueness. After any sequence of AddBinding and RemoveBinding
\* calls from the empty store, no two entries have the same normalized path.
C9_BindingUniqueness ==
    \A i, j \in 1..Len(bindings) :
        i # j => Normalized(bindings[i].path) # Normalized(bindings[j].path)

\* C9's case has happened: a path was added again in another spelling while
\* the store holds other entries, and the store still has one entry for it.
C9_Witness ==
    /\ last.op = "AddBinding"
    /\ ~last.err
    /\ Len(last.pre) >= 2
    /\ \E i \in 1..Len(last.pre) :
           /\ Normalized(last.pre[i].path) = ExpandPath(last.path, last.home).path
           /\ last.pre[i].path # last.path
    /\ Len(bindings) = Len(last.pre)

\* C10: replace, not duplicate. AddBinding of a path already bound keeps the
\* number of entries and every path, and changes only that entry's profile;
\* AddBinding of an unbound path appends one entry at the end.
C10_ReplaceNotDuplicate ==
    (last.op = "AddBinding" /\ ~last.err) =>
        LET pre == last.pre
            n == ExpandPath(last.path, last.home).path
            bound == \E i \in 1..Len(pre) : Normalized(pre[i].path) = n
        IN  IF bound
            THEN /\ Len(bindings) = Len(pre)
                 /\ \A j \in 1..Len(pre) :
                        /\ bindings[j].path = pre[j].path
                        /\ bindings[j].profile =
                               IF Normalized(pre[j].path) = n THEN last.profile
                               ELSE pre[j].profile
            ELSE bindings = Append(pre, [path |-> n, profile |-> last.profile])

\* C10's case has happened: the first of three entries was re-bound to
\* another profile and is still first.
C10_Witness ==
    /\ last.op = "AddBinding"
    /\ ~last.err
    /\ Len(last.pre) = 3
    /\ Normalized(last.pre[1].path) = ExpandPath(last.path, last.home).path
    /\ last.pre[1].profile # last.profile
    /\ Len(bindings) = 3
    /\ bindings[1].profile = last.profile

\* C17: normalized at write time. The entry that AddBinding has written or
\* updated holds its path in normalized form: normalizing the stored path
\* again gives the same path.
C17_NormalizedAtWrite ==
    (last.op = "AddBinding" /\ ~last.err) =>
        LET n == ExpandPath(last.path, last.home)
        IN  \A i \in 1..Len(bindings) :
                ExpandPath(bindings[i].path, last.home) = n
                    => bindings[i].path = Normalized(bindings[i].path)

---------------------------------------------------------------------------
(* Git-identity synchronizer: internal/gitconfig *)

\* A line is a sequence of tokens: single characters for a path, and one
\* token for each fixed piece of text the code looks for.
SP == " "

INC == "[includeIf \""

GD == "gitdir:"

END == "\"]"

marker == "# managed by gh-identity"

PATHEQ == "path = "

RECURSIVE TrimLeft(_)
TrimLeft(s) == IF s # <<>> /\ Head(s) = SP THEN TrimLeft(Tail(s)) ELSE s

RECURSIVE TrimRight(_)
TrimRight(s) ==
    IF s # <<>> /\ s[Len(s)] = SP THEN TrimRight(SubSeq(s, 1, Len(s) - 1)) ELSE s

TrimSpace(s) == TrimRight(TrimLeft(s))

TrimSuffix(s, suf) == IF HasSuffix(s, suf) THEN SubSeq(s, 1, Len(s) - Len(suf)) ELSE s

Contains(s, tok) == \E i \in 1..Len(s) : s[i] = tok

\* strings.Index for one token: the first position of tok in s, or 0.
Index(s, tok) ==
    IF Contains(s, tok) THEN CHOOSE i \in 1..Len(s) : s[i] = tok /\ \A j \in 1..(i - 1) : s[j] # tok
    ELSE 0

\* dirPath with the trailing separator the gitdir condition needs.
WithSlash(dirPath) == IF HasSuffix(dirPath, <<Sep>>) THEN dirPath ELSE dirPath \o <<Sep>>

Directive(dirPath) == <<INC, GD>> \o WithSlash(dirPath) \o <<END>>

PathLine(fragmentPath) == <<SP, SP, SP, SP, PATHEQ>> \o fragmentPath

IsPathLine(line) == HasPrefix(TrimSpace(line), <<PATHEQ>>)

\* The header test of AddIncludeIf: trimmed, then marker suffix dropped.
AddMatches(line, directive) == TrimSuffix(TrimSpace(line), <<SP, marker>>) = directive

\* The header test of RemoveIncludeIf.
RemoveMatches(line, directive) ==
    \/ TrimSpace(TrimSuffix(line, <<SP, marker>>)) = directive
    \/ TrimSpace(line) = directive

\* A file is Absent or an existing file [lines, nl]: the lines bufio.Scanner reads from it and
\* whether its content ends with a newline.
FileOf(lines, nl) == [exists |-> TRUE, lines |-> lines, nl |-> nl]

\* writeLines: strings.Join(lines, "\n") + "\n"; an empty list gives the
\* content "\n", which reads back as one empty line.
writeLines(lines) ==
    IF lines = <<>> THEN FileOf(<< <<>> >>, TRUE) ELSE FileOf(lines, TRUE)

\* readLines for an existing file.
readLines(file) == file.lines

\* A variant of the in-memory step of AddIncludeIf that always appends.
AddIncludeIfAlwaysAppend(lines, dirPath, fragmentPath) ==
    LET sep == IF Len(lines) > 0 /\ lines[Len(lines)] # <<>> THEN << <<>> >> ELSE <<>>
    IN  lines \o sep \o <<Directive(dirPath) \o <<SP, marker>>, PathLine(fragmentPath)>>

\* The in-memory step of AddIncludeIf: the line list that is written back.
AddIncludeIfLines(lines, dirPath, fragmentPath) ==
    LET directive == Directive(dirPath)
        hits == {i \in 1..Len(lines) :
                    /\ AddMatches(lines[i], directive)
                    /\ i + 1 <= Len(lines)
                    /\ IsPathLine(lines[i + 1])}
        sep == IF Len(lines) > 0 /\ lines[Len(lines)] # <<>> THEN << <<>> >> ELSE <<>>
    IN  IF hits # {}
        THEN LET i == CHOOSE k \in hits : \A j \in hits : k <= j
             IN  [lines EXCEPT ![i + 1] = PathLine(fragmentPath)]
        ELSE lines \o sep \o <<directive \o <<SP, marker>>, PathLine(fragmentPath)>>

\* I/O outcomes of one file operation.
IoOK == "ok"

IoReadFail == "read fails"

IoWriteFail == "write fails"

\* os.WriteFile opens the file with O_TRUNC and then writes: a write that
\* fails or is cut off after the open leaves the file empty, or with the
\* first part of the new content.
IoWriteTruncated == "write stops after truncation"

IoWritePartial == "write stops part-way"

IoFaults == {IoOK, IoReadFail, IoWriteFail, IoWriteTruncated, IoWritePartial}

\* What a write of lines that stops early leaves in the file.
TornWrite(lines, io) ==
    IF io = IoWriteTruncated THEN FileOf(<<>>, FALSE)
    ELSE FileOf(SubSeq(writeLines(lines).lines, 1, 1), FALSE)

\* gitconfig.AddIncludeIf: [err, file]. A missing file reads as no lines; a
\* failed read, or a write that cannot open the file, returns the error and
\* leaves the file as it was; a write that stops early leaves a torn file.
AddIncludeIf(file, dirPath, fragmentPath, io) ==
    IF file # Absent /\ io = IoReadFail THEN [err |-> TRUE, file |-> file]
    ELSE IF io = IoWriteFail THEN [err |-> TRUE, file |-> file]
    ELSE LET lines == IF file = Absent THEN <<>> ELSE readLines(file)
             new == AddIncludeIfLines(lines, dirPath, fragmentPath)
         IN  IF io \in {IoWriteTruncated, IoWritePartial}
             THEN [err |-> TRUE, file |-> TornWrite(new, io)]
             ELSE [err |-> FALSE, file |-> writeLines(new)]

\* The loop of RemoveIncludeIf over lines[i..] with its skip flag.
RECURSIVE RemoveScan(_, _, _, _)
RemoveScan(lines, i, skip, directive) ==
    IF i > Len(lines) THEN <<>>
    ELSE IF RemoveMatches(lines[i], directive)
         THEN RemoveScan(lines, i + 1, TRUE, directive)
         ELSE IF skip /\ IsPathLine(lines[i])
              THEN RemoveScan(lines, i + 1, FALSE, directive)
              ELSE <<lines[i]>> \o RemoveScan(lines, i + 1, FALSE, directive)

RECURSIVE TrimTrailingBlank(_)
TrimTrailingBlank(lines) ==
    IF lines # <<>> /\ lines[Len(lines)] = <<>>
    THEN TrimTrailingBlank(SubSeq(lines, 1, Len(lines) - 1))
    ELSE lines

\* The in-memory step of RemoveIncludeIf.
RemoveIncludeIfLines(lines, dirPath) ==
    TrimTrailingBlank(RemoveScan(lines, 1, FALSE, Directive(dirPath)))

\* gitconfig.RemoveIncludeIf: [err, file]. A missing file is left missing.
RemoveIncludeIf(file, dirPath, io) ==
    IF file = Absent THEN [err |-> FALSE, file |-> file]
    ELSE IF io \in {IoReadFail, IoWriteFail} THEN [err |-> TRUE, file |-> file]
    ELSE LET new == RemoveIncludeIfLines(readLines(file), dirPath)
         IN  IF io \in {IoWriteTruncated, IoWritePartial}
             THEN [err |-> TRUE, file |-> TornWrite(new, io)]
             ELSE [err |-> FALSE, file |-> writeLines(new)]

\* The directory ListManagedIncludeIfs extracts from one line, as a one
\* element sequence, or nothing.
ManagedDirOf(line) ==
    LET trimmed == TrimSpace(line)
        start == Index(trimmed, GD)
        rest == SubSeq(trimmed, start, Len(trimmed))
        end == Index(rest, END)
    IN  IF ~Contains(trimmed, marker) \/ start = 0 \/ end = 0 THEN <<>>
        ELSE <<SubSeq(rest, 2, end - 1)>>

RECURSIVE ManagedDirs(_)
ManagedDirs(lines) ==
    IF lines = <<>> THEN <<>>
    ELSE ManagedDirOf(Head(lines)) \o ManagedDirs(Tail(lines))

\* gitconfig.ListManagedIncludeIfs on a readable file.
ListManagedIncludeIfs(file) ==
    IF file = Absent THEN <<>> ELSE ManagedDirs(readLines(file))

---------------------------------------------------------------------------
(* The synchronizer on its own: any file content, any sequence of calls *)

MaxLines == 2

\* config.GitConfigDir
GitConfigDir == <<"/", "c", "/", "git">>

\* The fragment path of a profile: <git config dir>/<name>.gitconfig
FragmentPath(name) == GitConfigDir \o <<Sep, name, ".gitconfig">>

\* Lines a user's ~/.gitconfig may hold, hand-edited blocks included: plain
\* configuration, a blank line, a managed header, a header whose marker was
\* removed, a path line, a re-indented header with a space after the marker,
\* and a comment that quotes a managed header.
FileLines ==
    { <<"[user]">>,
      <<>>,
      Directive(PathA) \o <<SP, marker>>,
      Directive(PathA),
      PathLine(FragmentPath("work")),
      <<SP>> \o Directive(PathA) \o <<SP, marker, SP>>,
      <<"#", SP>> \o Directive(PathA) \o <<SP, marker>> }

\* File contents: a content that does not end in a newline has a last line.
FileContents ==
    {FileOf(ls, TRUE) : ls \in UNION {[1..n -> FileLines] : n \in 1..MaxLines}}
    \cup {FileOf(ls, FALSE) :
             ls \in {x \in UNION {[1..n -> FileLines] : n \in 1..MaxLines} : x[Len(x)] # <<>>}}
    \cup {FileOf(<<>>, FALSE)}

GcDirs == {PathA, <<"/", "a", "/">>, PathAB}

\* No line of the file is empty.
BlankFree(file) ==
    file = Absent \/ \A i \in 1..Len(file.lines) : file.lines[i] # <<>>

\* The directory of a line that is, trimmed, a header with the marker.
TaggedDirOf(line) ==
    LET t == TrimSpace(line)
        n == Len(t)
    IN  IF n >= 5 /\ t[1] = INC /\ t[2] = GD /\ t[n - 2] = END
           /\ t[n - 1] = SP /\ t[n] = marker
        THEN {SubSeq(t, 3, n - 3)}
        ELSE {}

\* The directories that have a marker-tagged header in the file.
TaggedDirs(file) ==
    IF file = Absent THEN {}
    ELSE UNION {TaggedDirOf(file.lines[i]) : i \in 1..Len(file.lines)}

\* last also carries the history the properties speak of: clean, whether
\* the file was absent or free of empty lines before the first call; single,
\* whether it then listed each tagged directory once; and managed, the
\* directories tagged at first or added since and not removed afterwards.
InitGitconfig ==
    /\ gitconfig \in FileContents \cup {Absent}
    /\ last = [op |-> "none", n |-> 0, clean |-> BlankFree(gitconfig),
               single |-> (Len(ListManagedIncludeIfs(gitconfig))
                              = Cardinality(TaggedDirs(gitconfig))),
               managed |-> TaggedDirs(gitconfig)]
    /\ bindings = <<>>
    /\ profiles = {}
    /\ defaultProfile = ""
    /\ fragments = {}
    /\ query = [dir |-> Root, home |-> HomeDir]
    /\ result = NoResult

\* A call of AddIncludeIf; repeat records that the call before it was the
\* same call, pre the file before this call, n the number of calls so far
\* (repeated add and remove grow the file without limit, so the calls are
\* counted and capped).
GcAdd ==
    \E d \in GcDirs, n \in ProfileNames :
        LET r == AddIncludeIf(gitconfig, d, FragmentPath(n), IoOK)
        IN  /\ last.n < MaxOps
            /\ gitconfig' = r.file
            /\ last' = [op |-> "AddIncludeIf", dir |-> d, frag |-> FragmentPath(n),
                        err |-> r.err, pre |-> gitconfig, n |-> last.n + 1,
                        repeat |-> (/\ last.op = "AddIncludeIf"
                                    /\ last.dir = d
                                    /\ last.frag = FragmentPath(n)),
                        clean |-> last.clean, single |-> last.single,
                        managed |-> last.managed \cup {WithSlash(d)}]
            /\ UNCHANGED <<profiles, defaultProfile, bindings, fragments, query, result>>

\* A call of RemoveIncludeIf.
GcRemove ==
    \E d \in GcDirs :
        LET r == RemoveIncludeIf(gitconfig, d, IoOK)
        IN  /\ last.n < MaxOps
            /\ gitconfig' = r.file
            /\ last' = [op |-> "RemoveIncludeIf", dir |-> d, frag |-> <<>>,
                        err |-> r.err, pre |-> gitconfig, n |-> last.n + 1,
                        repeat |-> FALSE,
                        clean |-> last.clean, single |-> last.single,
                        managed |-> last.managed \ {WithSlash(d)}]
            /\ UNCHANGED <<profiles, defaultProfile, bindings, fragments, query, result>>

NextGitconfig == GcAdd \/ GcRemove

SpecGitconfig == InitGitconfig /\ [][NextGitconfig]_vars

\* A call of AddIncludeIf in which a read or write of the file fails.
GcAddFails ==
    \E d \in GcDirs, n \in ProfileNames, io \in IoFaults \ {IoOK} :
        LET r == AddIncludeIf(gitconfig, d, FragmentPath(n), io)
        IN  /\ last.n < MaxOps
            /\ r.err
            /\ gitconfig' = r.file
            /\ last' = [op |-> "AddIncludeIf", dir |-> d, frag |-> FragmentPath(n),
                        err |-> r.err, pre |-> gitconfig, n |-> last.n + 1,
                        repeat |-> FALSE, clean |-> last.clean, single |-> last.single,
                        managed |-> last.managed]
            /\ UNCHANGED <<profiles, defaultProfile, bindings, fragments, query, result>>

\* A call of RemoveIncludeIf in which a read or write of the file fails.
GcRemoveFails ==
    \E d \in GcDirs, io \in IoFaults \ {IoOK} :
        LET r == RemoveIncludeIf(gitconfig, d, io)
        IN  /\ last.n < MaxOps
            /\ r.err
            /\ gitconfig' = r.file
            /\ last' = [op |-> "RemoveIncludeIf", dir |-> d, frag |-> <<>>,
                        err |-> r.err, pre |-> gitconfig, n |-> last.n + 1,
                        repeat |-> FALSE, clean |-> last.clean, single |-> last.single,
                        managed |-> last.managed]
            /\ UNCHANGED <<profiles, defaultProfile, bindings, fragments, query, result>>

NextGitconfigIo == GcAdd \/ GcRemove \/ GcAddFails \/ GcRemoveFails

\* The synchronizer with calls that fail, from no file, a user's file, or a
\* file with one managed block.
InitGitconfigIo ==
    /\ InitGitconfig
    /\ gitconfig \in {Absent,
                      FileOf(<< <<"[user]">> >>, TRUE),
                      FileOf(<<Directive(PathA) \o <<SP, marker>>,
                               PathLine(FragmentPath("work"))>>, TRUE)}

SpecGitconfigIo == InitGitconfigIo /\ [][NextGitconfigIo]_vars

---------------------------------------------------------------------------
(* Properties of the synchronizer *)

\* A complete line that is the header for dirPath, with or without marker.
IsHeaderFor(line, dirPath) ==
    LET t == TrimSpace(line)
    IN  t = Directive(dirPath) \/ t = Directive(dirPath) \o <<SP, marker>>

HeadersFor(file, dirPath) ==
    IF file = Absent THEN {}
    ELSE {i \in 1..Len(file.lines) : IsHeaderFor(file.lines[i], dirPath)}

\* C6: AddIncludeIf idempotence. A call of AddIncludeIf(file, d, f) that
\* follows the same call leaves the file with the content it had, whatever
\* the file held at first.
C6_AddIdempotent ==
    (last.op = "AddIncludeIf" /\ last.repeat) => gitconfig = last.pre

\* C6's case has happened: the same call was made twice on a file that had a
\* header without a path line, and the block appended by the first call is
\* there once.
C6_Witness ==
    /\ last.op = "AddIncludeIf"
    /\ last.repeat
    /\ gitconfig = last.pre
    /\ Cardinality(HeadersFor(gitconfig, last.dir)) = 2
    /\ Len(gitconfig.lines) >= 4

\* C7: exactly one block per directory. After AddIncludeIf for a directory,
\* whatever the file held before (stated here for files with at most one
\* header for it), the file has exactly one header for the directory and the
\* next line is the path line of the fragment just given.
C7_ExactlyOneBlock ==
    ( /\ last.op = "AddIncludeIf"
      /\ ~last.err
      /\ Cardinality(HeadersFor(last.pre, last.dir)) <= 1 )
    => LET hs == HeadersFor(gitconfig, last.dir)
       IN  /\ Cardinality(hs) = 1
           /\ \A i \in hs :
                  /\ i + 1 <= Len(gitconfig.lines)
                  /\ TrimSpace(gitconfig.lines[i + 1]) = TrimSpace(PathLine(last.frag))

\* The lines of a file that are neither a header for dirPath, nor the path
\* line immediately after one, nor an empty separator line, in file order.
RECURSIVE OtherLines(_, _, _)
OtherLines(lines, i, dirPath) ==
    IF i > Len(lines) THEN <<>>
    ELSE IF IsHeaderFor(lines[i], dirPath)
            \/ (i > 1 /\ IsHeaderFor(lines[i - 1], dirPath) /\ IsPathLine(lines[i]))
            \/ lines[i] = <<>>
         THEN OtherLines(lines, i + 1, dirPath)
         ELSE <<lines[i]>> \o OtherLines(lines, i + 1, dirPath)

Others(file, dirPath) ==
    IF file = Absent THEN <<>> ELSE OtherLines(file.lines, 1, dirPath)

\* C11: unrelated configuration is untouched. AddIncludeIf and
\* RemoveIncludeIf for d keep every line of text that is not d's header or
\* the path line after it, unchanged and in order; RemoveIncludeIf for a directory
\* with no directive returns no error and leaves the content, or the absence
\* of the file, exactly as it was.
C11_UnrelatedUntouched ==
    /\ (last.op = "AddIncludeIf" /\ ~last.err) =>
           LET before == Others(last.pre, last.dir)
               after == Others(gitconfig, last.dir)
           IN  /\ Len(after) >= Len(before)
               /\ SubSeq(after, 1, Len(before)) = before
    /\ (last.op = "RemoveIncludeIf" /\ ~last.err) =>
           Others(gitconfig, last.dir) = Others(last.pre, last.dir)
    /\ (last.op = "RemoveIncludeIf" /\ HeadersFor(last.pre, last.dir) = {}) =>
           /\ ~last.err
           /\ gitconfig = last.pre

\* A complete line that is an includeIf header, with or without marker.
IsHeader(line) ==
    LET t == TrimSuffix(TrimSpace(line), <<SP, marker>>)
    IN  Len(t) >= 3 /\ t[1] = INC /\ t[2] = GD /\ t[Len(t)] = END

BlankCount(file) ==
    IF file = Absent THEN 0
    ELSE Cardinality({i \in 1..Len(file.lines) : file.lines[i] = <<>>})

BlockCount(file) ==
    IF file = Absent THEN 0
    ELSE Cardinality({i \in 1..Len(file.lines) : IsHeader(file.lines[i])})

\* C12: no blank-line accumulation. From an absent file or one without empty
\* lines, after any sequence of AddIncludeIf and RemoveIncludeIf calls the
\* file has no more empty lines than directive blocks.
C12_NoBlankAccumulation ==
    last.clean => BlankCount(gitconfig) <= BlockCount(gitconfig)

\* C13: ListManagedIncludeIfs reports exactly the managed directories. After
\* any sequence of successful AddIncludeIf and RemoveIncludeIf calls the list
\* holds, once each, the directories added (or tagged in the file at first)
\* and not removed afterwards; for a nonexistent file or one with no tagged
\* directive it is empty.
C13_ListExact ==
    LET dirs == ListManagedIncludeIfs(gitconfig)
    IN  /\ {dirs[i] : i \in 1..Len(dirs)} = last.managed
        /\ last.single => Len(dirs) = Cardinality(last.managed)
        /\ (gitconfig = Absent \/ TaggedDirs(gitconfig) = {}) => dirs = <<>>

\* The lines that hold the directive text or the marker inside a longer
\* line, in file order.
RECURSIVE PartialLines(_)
PartialLines(lines) ==
    IF lines = <<>> THEN <<>>
    ELSE IF (Contains(Head(lines), GD) \/ Contains(Head(lines), marker))
            /\ ~IsHeader(Head(lines))
         THEN <<Head(lines)>> \o PartialLines(Tail(lines))
         ELSE PartialLines(Tail(lines))

\* C14: whole-line directive detection. A line that only contains the
\* directive text or the marker as part of a longer line is kept as it is by
\* AddIncludeIf and RemoveIncludeIf and is not listed by
\* ListManagedIncludeIfs.
C14_WholeLineDetection ==
    /\ (last.op # "none" /\ ~last.err /\ last.pre # Absent) =>
           PartialLines(gitconfig.lines) = PartialLines(last.pre.lines)
    /\ gitconfig # Absent =>
           \A i \in 1..Len(gitconfig.lines) :
               ManagedDirOf(gitconfig.lines[i]) # <<>> => IsHeader(gitconfig.lines[i])

\* C15: atomic rewrite. After a call of AddIncludeIf or RemoveIncludeIf,
\* failed or cut off part-way included, the file has either its complete
\* previous content or its complete new content.
C15_AtomicRewrite ==
    (last.op \in {"AddIncludeIf", "RemoveIncludeIf"}) =>
        LET new == IF last.op = "AddIncludeIf"
                   THEN AddIncludeIf(last.pre, last.dir, last.frag, IoOK).file
                   ELSE RemoveIncludeIf(last.pre, last.dir, IoOK).file
        IN  gitconfig = last.pre \/ gitconfig = new

---------------------------------------------------------------------------
(* The commands: bind, unbind, profile add, profile remove (internal/cmd) *)

MaxCmds == 3

\* The step of a command that fails, if any: the home directory cannot be
\* resolved, or one read or write of a file fails.
FNone == "no failure"

FNoHome == "home directory unresolved"

FLoadProfiles == "LoadProfiles fails"

FSaveProfiles == "profiles.Save fails"

FLoadBindings == "LoadBindings fails"

FSaveBindings == "bindings.Save fails"

FWriteFragment == "WriteProfileFragment fails"

FRemoveFragment == "RemoveProfileFragment fails"

FGitconfigRead == "reading .gitconfig fails"

FGitconfigWrite == "writing .gitconfig fails"

HomeOf(fault) == IF fault = FNoHome THEN NoHome ELSE HomeDir

IoOf(fault) ==
    IF fault = FGitconfigRead THEN IoReadFail
    ELSE IF fault = FGitconfigWrite THEN IoWriteFail
    ELSE IoOK

\* The files on disk.
Disk == [profiles |-> profiles, defaultProfile |-> defaultProfile, bindings |-> bindings,
         gitconfig |-> gitconfig, fragments |-> fragments]

Failed(d) == [err |-> TRUE, disk |-> d]

Done(d) == [err |-> FALSE, disk |-> d]

\* cmd.runProfileAdd
runProfileAdd(d, name, fault) ==
    IF fault = FLoadProfiles THEN Failed(d)
    ELSE IF name \in d.profiles THEN Failed(d)
    ELSE IF fault = FSaveProfiles THEN Failed(d)
    ELSE LET d1 == [d EXCEPT !.profiles = @ \cup {name}]
         IN  IF fault = FWriteFragment THEN Failed(d1)
             ELSE Done([d1 EXCEPT !.fragments = @ \cup {name}])

\* cmd.runBind
runBind(d, dirPath, profileName, fault) ==
    LET home == HomeOf(fault)
        e == ExpandPath(dirPath, home)
        a == AddBinding(d.bindings, e.path, profileName, home)
        d1 == [d EXCEPT !.bindings = a.bindings]
        d2 == [d1 EXCEPT !.fragments = @ \cup {profileName}]
        g == AddIncludeIf(d2.gitconfig, e.path, FragmentPath(profileName), IoOf(fault))
    IN  IF fault = FLoadProfiles THEN Failed(d)
        ELSE IF profileName \notin d.profiles THEN Failed(d)
        ELSE IF e.err THEN Failed(d)
        ELSE IF fault = FLoadBindings THEN Failed(d)
        ELSE IF a.err THEN Failed(d)
        ELSE IF fault = FSaveBindings THEN Failed(d)
        ELSE IF fault = FWriteFragment THEN Failed(d1)
        ELSE IF home = NoHome THEN Failed(d2)
        ELSE IF g.err THEN Failed(d2)
        ELSE Done([d2 EXCEPT !.gitconfig = g.file])

\* cmd.runUnbind: the error of RemoveIncludeIf is dropped.
runUnbind(d, dirPath, fault) ==
    LET home == HomeOf(fault)
        e == ExpandPath(dirPath, home)
        r == RemoveBinding(d.bindings, e.path, home)
        d1 == [d EXCEPT !.bindings = r.bindings]
    IN  IF e.err THEN Failed(d)
        ELSE IF fault = FLoadBindings THEN Failed(d)
        ELSE IF r.err THEN Failed(d)
        ELSE IF fault = FSaveBindings THEN Failed(d)
        ELSE IF home = NoHome THEN Done(d1)
        ELSE Done([d1 EXCEPT !.gitconfig = RemoveIncludeIf(@, e.path, IoOf(fault)).file])

\* The loop of runProfileRemove over removedPaths[i..].
RECURSIVE RemoveIncludeIfs(_, _, _, _)
RemoveIncludeIfs(file, paths, i, fault) ==
    IF i > Len(paths) THEN file
    ELSE LET e == ExpandPath(paths[i], HomeOf(fault))
         IN  IF e.err THEN RemoveIncludeIfs(file, paths, i + 1, fault)
             ELSE RemoveIncludeIfs(RemoveIncludeIf(file, e.path, IoOf(fault)).file,
                                   paths, i + 1, fault)

\* A variant of runProfileRemove that leaves the global gitconfig alone.
runProfileRemoveKeepIncludes(d, name, fault) ==
    LET d1 == [d EXCEPT !.profiles = @ \ {name},
                        !.defaultProfile = IF @ = name THEN "" ELSE @]
        d2 == [d1 EXCEPT !.bindings = SelectSeq(@, LAMBDA b : b.profile # name)]
        d3 == [d2 EXCEPT !.fragments = IF fault = FRemoveFragment THEN @ ELSE @ \ {name}]
    IN  IF fault = FLoadProfiles THEN Failed(d)
        ELSE IF name \notin d.profiles THEN Failed(d)
        ELSE IF fault = FSaveProfiles THEN Failed(d)
        ELSE IF fault = FLoadBindings THEN Failed(d1)
        ELSE IF fault = FSaveBindings THEN Failed(d1)
        ELSE Done(d3)

\* cmd.runProfileRemove: a failing RemoveProfileFragment is only reported,
\* the errors of RemoveIncludeIf are dropped.
runProfileRemove(d, name, fault) ==
    LET d1 == [d EXCEPT !.profiles = @ \ {name},
                        !.defaultProfile = IF @ = name THEN "" ELSE @]
        remaining == SelectSeq(d.bindings, LAMBDA b : b.profile # name)
        removed == SelectSeq(d.bindings, LAMBDA b : b.profile = name)
        removedPaths == [i \in 1..Len(removed) |-> removed[i].path]
        d2 == [d1 EXCEPT !.bindings = remaining]
        d3 == [d2 EXCEPT !.fragments = IF fault = FRemoveFragment THEN @ ELSE @ \ {name}]
    IN  IF fault = FLoadProfiles THEN Failed(d)
        ELSE IF name \notin d.profiles THEN Failed(d)
        ELSE IF fault = FSaveProfiles THEN Failed(d)
        ELSE IF fault = FLoadBindings THEN Failed(d1)
        ELSE IF fault = FSaveBindings THEN Failed(d1)
        ELSE IF HomeOf(fault) = NoHome THEN Done(d3)
        ELSE Done([d3 EXCEPT !.gitconfig = RemoveIncludeIfs(@, removedPaths, 1, fault)])

\* Directories given to bind and unbind.
CmdPaths == {PathA, PathAB, <<"/", "a", "/">>}

\* A ~/.gitconfig with the user's own settings.
UserGitconfig == FileOf(<< <<"[user]">>, <<SP, SP, SP, SP, "name = Default">> >>, TRUE)

\* The stores are empty, or hold profiles added before; no binding exists.
Init ==
    /\ profiles \in SUBSET ProfileNames
    /\ fragments = profiles
    /\ defaultProfile = ""
    /\ bindings = <<>>
    /\ gitconfig \in {Absent, UserGitconfig}
    /\ last = NoOp
    /\ query = [dir |-> Root, home |-> HomeDir]
    /\ result = NoResult

\* The effect of one command run to its end; last records the command, its
\* outcome and, for profile remove and unbind, the bindings before it, and
\* for unbind the global gitconfig before it.
Apply(r, op, name, path, fault) ==
    /\ last.n < MaxCmds
    /\ profiles' = r.disk.profiles
    /\ defaultProfile' = r.disk.defaultProfile
    /\ bindings' = r.disk.bindings
    /\ gitconfig' = r.disk.gitconfig
    /\ fragments' = r.disk.fragments
    /\ last' = [op |-> op, name |-> name, path |-> path, fault |-> fault, err |-> r.err,
                pre |-> IF op \in {"profile remove", "unbind"} THEN bindings ELSE <<>>,
                gc |-> IF op = "unbind" THEN gitconfig ELSE Absent,
                n |-> last.n + 1]
    /\ UNCHANGED <<query, result>>

ProfileAdd ==
    \E name \in ProfileNames,
       fault \in {FNone, FLoadProfiles, FSaveProfiles, FWriteFragment} :
        Apply(runProfileAdd(Disk, name, fault), "profile add", name, <<>>, fault)

Bind ==
    \E p \in CmdPaths, name \in ProfileNames,
       fault \in {FNone, FNoHome, FLoadProfiles, FLoadBindings, FSaveBindings,
                  FWriteFragment, FGitconfigRead, FGitconfigWrite} :
        Apply(runBind(Disk, p, name, fault), "bind", name, p, fault)

Unbind ==
    \E p \in CmdPaths,
       fault \in {FNone, FNoHome, FLoadBindings, FSaveBindings, FGitconfigRead,
                  FGitconfigWrite} :
        Apply(runUnbind(Disk, p, fault), "unbind", "", p, fault)

ProfileRemove ==
    \E name \in ProfileNames,
       fault \in {FNone, FNoHome, FLoadProfiles, FSaveProfiles, FLoadBindings,
                  FSaveBindings, FRemoveFragment, FGitconfigRead, FGitconfigWrite} :
        Apply(runProfileRemove(Disk, name, fault), "profile remove", name, <<>>, fault)

Next == ProfileAdd \/ Bind \/ Unbind \/ ProfileRemove

Spec == Init /\ [][Next]_vars

---------------------------------------------------------------------------
(* Properties of the commands *)

\* The directories with a managed includeIf directive, and the bound ones,
\* both in the directive's form (with the trailing separator).
ManagedDirSet ==
    LET ds == ListManagedIncludeIfs(gitconfig) IN {ds[i] : i \in 1..Len(ds)}

BoundDirSet == {WithSlash(bindings[i].path) : i \in 1..Len(bindings)}

\* C5: no drift. After every bind, unbind and profile remove, run to its end
\* with success or with an error, the directories with a managed directive
\* are the paths of the binding store.
C5_NoDrift == ManagedDirSet = BoundDirSet

\* The bindings of the removed profile before the command.
RemovedBindings == SelectSeq(last.pre, LAMBDA b : b.profile = last.name)

C29_ReferentialIntegrity ==
    \A i \in 1..Len(bindings) : bindings[i].profile \in profiles

\* C16: remove of an unbound path is an error without effect. unbind of a
\* directory that no entry has as its normalized path returns the error of
\* RemoveBinding and leaves the binding document and the global gitconfig as
\* they were; unbind of a bound directory removes exactly that entry and
\* keeps the others in order.
C16_RemoveUnbound ==
    (last.op = "unbind") =>
        LET n == ExpandPath(last.path, HomeOf(last.fault)).path
            hits == {i \in 1..Len(last.pre) : Normalized(last.pre[i].path) = n}
        IN  /\ (hits = {}) =>
                   /\ last.err
                   /\ bindings = last.pre
                   /\ gitconfig = last.gc
            /\ (hits # {} /\ ~last.err) =>
                   /\ Cardinality(hits) = 1
                   /\ \A i \in hits :
                          bindings = SubSeq(last.pre, 1, i - 1)
                                         \o SubSeq(last.pre, i + 1, Len(last.pre))

\* C16's case has happened: with /a/b bound and its directive in the global
\* gitconfig, unbind of the unbound /a failed without a failing step and
\* changed nothing.
C16_Witness ==
    /\ last.op = "unbind"
    /\ last.fault = FNone
    /\ last.err
    /\ Normalized(last.path) = PathA
    /\ Len(bindings) = 1
    /\ bindings[1].path = PathAB
    /\ bindings = last.pre
    /\ gitconfig = last.gc
    /\ ManagedDirSet = {WithSlash(PathAB)}

---------------------------------------------------------------------------
(* Shell projection: internal/hook formatOutput / formatExports, cmd.runSwitch *)

\* Shell text is a sequence of tokens: one token for each fixed word the
\* code prints, one token for each character of a value.
NL == "\n"

DQ == "\""

BS == "\\"

Fish == "fish"

Bash == "bash"

Zsh == "zsh"

Shells == {Fish, Bash, Zsh}

\* strconv.Quote, the %q verb: the value between double quotes, with a
\* backslash before each double quote and backslash and \n for a newline;
\* every other printable character, $ and ; included, is copied.
RECURSIVE QuoteEscape(_)
QuoteEscape(v) ==
    IF v = <<>> THEN <<>>
    ELSE (IF Head(v) = DQ THEN <<BS, DQ>>
          ELSE IF Head(v) = BS THEN <<BS, BS>>
          ELSE IF Head(v) = NL THEN <<BS, "n">>
          ELSE <<Head(v)>>) \o QuoteEscape(Tail(v))

Quote(v) == <<DQ>> \o QuoteEscape(v) \o <<DQ>>

\* fmt.Fprintf(b, "set -gx %s %q\n", key, value)
writeFishExport(key, value) == <<"set", SP, "-gx", SP, key, SP>> \o Quote(value) \o <<NL>>

\* fmt.Fprintf(b, "export %s=%q\n", key, value)
writePosixExport(key, value) == <<"export", SP, key, "=">> \o Quote(value) \o <<NL>>

writeExport(shell, key, value) ==
    IF shell = Fish THEN writeFishExport(key, value) ELSE writePosixExport(key, value)

\* fmt.Fprintf(&b, "gh auth switch --user %s 2>/dev/null\n", env.GHUser)
AuthSwitch(user) ==
    <<"gh", SP, "auth", SP, "switch", SP, "--user", SP>> \o user \o <<SP, "2>/dev/null", NL>>

\* formatOutput without the test of env.GHSSHCommand: the signing-key
\* statement is written whatever the value.
formatOutputAlwaysSSH(shell, env) ==
    (IF shell = Fish
     THEN <<"set", SP, "-e", SP, "GH_TOKEN", SP, "2>/dev/null", NL>>
     ELSE <<"unset", SP, "GH_TOKEN", SP, "2>/dev/null", NL>>)
    \o AuthSwitch(env.GHUser)
    \o writeExport(shell, "GIT_AUTHOR_NAME", env.GitAuthorName)
    \o writeExport(shell, "GIT_AUTHOR_EMAIL", env.GitAuthorEmail)
    \o writeExport(shell, "GIT_COMMITTER_NAME", env.GitCommitterName)
    \o writeExport(shell, "GIT_COMMITTER_EMAIL", env.GitCommitterEmail)
    \o writeExport(shell, "GH_IDENTITY_PROFILE", env.GHIdentityProfile)
    \o writeExport(shell, "GIT_SSH_COMMAND", env.GHSSHCommand)

\* hook.formatOutput (the hook that switches the gh account)
formatOutput(shell, env) ==
    (IF shell = Fish
     THEN <<"set", SP, "-e", SP, "GH_TOKEN", SP, "2>/dev/null", NL>>
     ELSE <<"unset", SP, "GH_TOKEN", SP, "2>/dev/null", NL>>)
    \o AuthSwitch(env.GHUser)
    \o writeExport(shell, "GIT_AUTHOR_NAME", env.GitAuthorName)
    \o writeExport(shell, "GIT_AUTHOR_EMAIL", env.GitAuthorEmail)
    \o writeExport(shell, "GIT_COMMITTER_NAME", env.GitCommitterName)
    \o writeExport(shell, "GIT_COMMITTER_EMAIL", env.GitCommitterEmail)
    \o writeExport(shell, "GH_IDENTITY_PROFILE", env.GHIdentityProfile)
    \o (IF env.GHSSHCommand # <<>>
        THEN writeExport(shell, "GIT_SSH_COMMAND", env.GHSSHCommand) ELSE <<>>)

\* hook.formatExports (the hook that exports GH_TOKEN)
formatExports(shell, env) ==
    writeExport(shell, "GH_TOKEN", env.GHToken)
    \o writeExport(shell, "GIT_AUTHOR_NAME", env.GitAuthorName)
    \o writeExport(shell, "GIT_AUTHOR_EMAIL", env.GitAuthorEmail)
    \o writeExport(shell, "GIT_COMMITTER_NAME", env.GitCommitterName)
    \o writeExport(shell, "GIT_COMMITTER_EMAIL", env.GitCommitterEmail)
    \o writeExport(shell, "GH_IDENTITY_PROFILE", env.GHIdentityProfile)
    \o (IF env.GHSSHCommand # <<>>
        THEN writeExport(shell, "GIT_SSH_COMMAND", env.GHSSHCommand) ELSE <<>>)
    \o (IF env.GitAskPass # <<>>
        THEN writeExport(shell, "GIT_ASKPASS", env.GitAskPass) ELSE <<>>)

\* cmd.runSwitch: the statements it prints, always in the POSIX dialect.
runSwitch(env) ==
    <<"unset", SP, "GH_TOKEN", SP, "2>/dev/null", NL>>
    \o AuthSwitch(env.GHUser)
    \o writePosixExport("GIT_AUTHOR_NAME", env.GitAuthorName)
    \o writePosixExport("GIT_AUTHOR_EMAIL", env.GitAuthorEmail)
    \o writePosixExport("GIT_COMMITTER_NAME", env.GitCommitterName)
    \o writePosixExport("GIT_COMMITTER_EMAIL", env.GitCommitterEmail)
    \o writePosixExport("GH_IDENTITY_PROFILE", env.GHIdentityProfile)
    \o (IF env.GHSSHCommand # <<>>
        THEN writePosixExport("GIT_SSH_COMMAND", env.GHSSHCommand) ELSE <<>>)

\* Values a profiles.yml may hold in gh_user and git_name: empty, a plain
\* word, and words with a space, a double quote, a statement separator and
\* an expansion in them.
Values ==
    { <<>>,
      <<"a">>,
      <<"a", SP, "b">>,
      <<"a", DQ, "b">>,
      <<"a", ";", "b">>,
      <<"$", "a">> }

\* "ssh -i <key> -o IdentitiesOnly=yes", as Resolve builds it.
SSHCommand == <<"ssh", SP, "-i", SP, "/", "k", SP, "-o", SP, "IdentitiesOnly=yes">>

\* The EnvOutput values Resolve builds: committer as author, a profile name
\* that resolved, the optional fields set or empty.
EnvOutputs ==
    { [GHUser |-> u, GHToken |-> t, GitAuthorName |-> n, GitAuthorEmail |-> e,
       GitCommitterName |-> n, GitCommitterEmail |-> e, GHIdentityProfile |-> p,
       GHSSHCommand |-> c, GitAskPass |-> k] :
        u \in Values, t \in {<<>>, <<"t">>}, n \in Values, e \in {<<>>, <<"e">>},
        p \in {<<"w">>, <<"w", SP, "k">>}, c \in {<<>>, SSHCommand},
        k \in {<<>>, <<"/", "k">>} }

InitHook ==
    /\ query \in [shell : Shells, env : EnvOutputs]
    /\ result = NoResult
    /\ last = NoOp
    /\ bindings = <<>>
    /\ profiles = {}
    /\ defaultProfile = ""
    /\ gitconfig = Absent
    /\ fragments = {}

\* The hook prints the statements of formatOutput.
FormatOutput ==
    /\ result = NoResult
    /\ result' = [by |-> "formatOutput", dialect |-> query.shell,
                  out |-> formatOutput(query.shell, query.env)]
    /\ UNCHANGED <<profiles, defaultProfile, bindings, gitconfig, fragments, query, last>>

\* The hook prints the statements of formatExports.
FormatExports ==
    /\ result = NoResult
    /\ result' = [by |-> "formatExports", dialect |-> query.shell,
                  out |-> formatExports(query.shell, query.env)]
    /\ UNCHANGED <<profiles, defaultProfile, bindings, gitconfig, fragments, query, last>>

\* gh identity switch prints its statements. Its ghauth.Auth argument is
\* unnamed (`_ ghauth.Auth`) and never called: whether Auth.Token would
\* fail for the account (tokenErr) changes neither the output nor the
\* returned error, which is nil once the profile is found.
Switch ==
    /\ result = NoResult
    /\ \E tokenErr \in BOOLEAN :
           result' = [by |-> "runSwitch", dialect |-> Bash, out |-> runSwitch(query.env),
                      tokenErr |-> tokenErr, err |-> FALSE]
    /\ UNCHANGED <<profiles, defaultProfile, bindings, gitconfig, fragments, query, last>>

NextHook == FormatOutput \/ FormatExports \/ Switch

SpecHook == InitHook /\ [][NextHook]_vars

---------------------------------------------------------------------------
(* Properties of the shell projection *)

Formatted == result # NoResult

\* What the word of an unquoted or double-quoted $ stands for once the
\* shell has expanded it.
Expansion == "<expansion>"

\* The statements a shell reads from text, each a sequence of words after
\* quote removal: outside quotes a space ends a word and a newline or ;
\* ends a statement; a backslash makes the next character literal (inside
\* double quotes only before a double quote, a backslash or $); $ starts an
\* expansion outside quotes and inside double quotes. The reader's state is
\* its position i, whether it is inside quotes, the word and the statement
\* being read and the statements read; eol says a newline was just read.
EndWord(st) == IF st.has THEN Append(st.words, st.word) ELSE st.words

EndStatement(st) == IF EndWord(st) # <<>> THEN Append(st.stmts, EndWord(st)) ELSE st.stmts

Take(st, c, n) == [st EXCEPT !.i = @ + n, !.has = TRUE, !.word = Append(@, c)]

ReadStep(s, st) ==
    LET i == st.i
        c == s[i]
    IN  IF st.inq
        THEN IF c = DQ THEN [st EXCEPT !.i = i + 1, !.inq = FALSE]
             ELSE IF c = BS /\ i < Len(s) /\ s[i + 1] \in {DQ, BS, "$"}
             THEN Take(st, s[i + 1], 2)
             ELSE IF c = "$" THEN Take(st, Expansion, 1)
             ELSE [Take(st, c, 1) EXCEPT !.eol = (c = NL)]
        ELSE IF c = DQ THEN [st EXCEPT !.i = i + 1, !.inq = TRUE, !.has = TRUE]
             ELSE IF c = BS /\ i < Len(s) THEN Take(st, s[i + 1], 2)
             ELSE IF c = SP
             THEN [st EXCEPT !.i = i + 1, !.has = FALSE, !.word = <<>>,
                             !.words = EndWord(st)]
             ELSE IF c \in {NL, ";"}
             THEN [st EXCEPT !.i = i + 1, !.has = FALSE, !.word = <<>>, !.words = <<>>,
                             !.stmts = EndStatement(st), !.eol = (c = NL)]
             ELSE IF c = "$" THEN Take(st, Expansion, 1)
             ELSE Take(st, c, 1)

\* Each step's state is bound to a value before the next step reads it.
RECURSIVE ReadLine(_, _)
ReadLine(s, st) ==
    IF st.i > Len(s) \/ st.eol THEN st
    ELSE CHOOSE r \in {ReadLine(s, next) : next \in {ReadStep(s, st)}} : TRUE

RECURSIVE ReadAll(_, _)
ReadAll(s, st) ==
    IF st.i > Len(s) THEN st
    ELSE CHOOSE r \in {ReadAll(s, next) :
                           next \in {ReadLine(s, [st EXCEPT !.eol = FALSE])}} : TRUE

Statements(text) ==
    EndStatement(ReadAll(text, [i |-> 1, inq |-> FALSE, has |-> FALSE, word |-> <<>>,
                                words |-> <<>>, stmts |-> <<>>, eol |-> FALSE]))

\* The statement that sets key to value in a dialect, as words.
ExportStatement(dialect, key, value) ==
    IF dialect = Fish THEN << <<"set">>, <<"-gx">>, <<key>>, value >>
    ELSE << <<"export">>, <<key, "=">> \o value >>

\* The statements a projection is meant to consist of, values literal.
Intended(by, dialect, env) ==
    (IF by = "formatExports" THEN <<ExportStatement(dialect, "GH_TOKEN", env.GHToken)>>
     ELSE << (IF dialect = Fish
              THEN << <<"set">>, <<"-e">>, <<"GH_TOKEN">>, <<"2>/dev/null">> >>
              ELSE << <<"unset">>, <<"GH_TOKEN">>, <<"2>/dev/null">> >>),
             << <<"gh">>, <<"auth">>, <<"switch">>, <<"--user">>, env.GHUser,
                <<"2>/dev/null">> >> >>)
    \o << ExportStatement(dialect, "GIT_AUTHOR_NAME", env.GitAuthorName),
          ExportStatement(dialect, "GIT_AUTHOR_EMAIL", env.GitAuthorEmail),
          ExportStatement(dialect, "GIT_COMMITTER_NAME", env.GitCommitterName),
          ExportStatement(dialect, "GIT_COMMITTER_EMAIL", env.GitCommitterEmail),
          ExportStatement(dialect, "GH_IDENTITY_PROFILE", env.GHIdentityProfile) >>
    \o (IF env.GHSSHCommand # <<>>
        THEN <<ExportStatement(dialect, "GIT_SSH_COMMAND", env.GHSSHCommand)>> ELSE <<>>)
    \o (IF by = "formatExports" /\ env.GitAskPass # <<>>
        THEN <<ExportStatement(dialect, "GIT_ASKPASS", env.GitAskPass)>> ELSE <<>>)

\* C19: safe quoting. Whatever the profile-derived values hold, the shell
\* reads from the projection exactly the intended statements, each value as
\* one literal word.
C19_SafeQuoting ==
    Formatted => Statements(result.out) = Intended(result.by, result.dialect, query.env)

\* The keys of a projection in their fixed order, each with its value.
KeyList(by, env) ==
    (IF by = "formatExports" THEN << <<"GH_TOKEN", env.GHToken>> >> ELSE <<>>)
    \o << <<"GIT_AUTHOR_NAME", env.GitAuthorName>>,
          <<"GIT_AUTHOR_EMAIL", env.GitAuthorEmail>>,
          <<"GIT_COMMITTER_NAME", env.GitCommitterName>>,
          <<"GIT_COMMITTER_EMAIL", env.GitCommitterEmail>>,
          <<"GH_IDENTITY_PROFILE", env.GHIdentityProfile>>,
          <<"GIT_SSH_COMMAND", env.GHSSHCommand>> >>
    \o (IF by = "formatExports" THEN << <<"GIT_ASKPASS", env.GitAskPass>> >> ELSE <<>>)

\* The keys the statements of a text set, in the order of the text.
RECURSIVE ExportedKeys(_, _)
ExportedKeys(text, i) ==
    IF i > Len(text) THEN <<>>
    ELSE IF i > 2 /\ text[i - 2] \in {"export", "-gx"}
         THEN <<text[i]>> \o ExportedKeys(text, i + 1)
         ELSE ExportedKeys(text, i + 1)

\* C20: empty values are omitted. The projection has one export statement
\* for each key of the fixed list whose value is not empty, in the fixed
\* order, and none for a key whose value is empty.
C20_EmptyOmitted ==
    Formatted =>
        LET keys == SelectSeq(KeyList(result.by, query.env), LAMBDA kv : kv[2] # <<>>)
        IN  ExportedKeys(result.out, 1) = [i \in 1..Len(keys) |-> keys[i][1]]

\* The lines of a projection: where each statement the formatter wrote
\* starts, and whether the text at a place starts with given tokens.
LineStarts(text) == {i \in 1..Len(text) : i = 1 \/ text[i - 1] = NL}

StartsWith(text, i, toks) ==
    i + Len(toks) - 1 <= Len(text) /\ SubSeq(text, i, i + Len(toks) - 1) = toks

FishSet(key) == <<"set", SP, "-gx", SP, key, SP>>

PosixExport(key) == <<"export", SP, key, "=">>

\* The lines that set GIT_SSH_COMMAND, in either dialect.
SSHLines(text) ==
    {i \in LineStarts(text) :
        \/ StartsWith(text, i, FishSet("GIT_SSH_COMMAND"))
        \/ StartsWith(text, i, PosixExport("GIT_SSH_COMMAND"))}

\* C21: signing-key statement. The projection has no statement for
\* GIT_SSH_COMMAND when the environment has no signing-key command and
\* exactly one, in the dialect's form and holding that command between its
\* quotes, when it has one; every statement of the fish projection starts
\* with set (or is the gh call) and none with export, every exporting
\* statement of the bash / zsh projection starts with export and none with
\* set -gx.
C21_SigningKeyStatement ==
    Formatted =>
        LET out == result.out
            cmd == query.env.GHSSHCommand
            head == IF result.dialect = Fish THEN FishSet("GIT_SSH_COMMAND")
                    ELSE PosixExport("GIT_SSH_COMMAND")
        IN  /\ cmd = <<>> => SSHLines(out) = {}
            /\ cmd # <<>> =>
                   /\ Cardinality(SSHLines(out)) = 1
                   /\ \A i \in SSHLines(out) :
                          StartsWith(out, i, head \o <<DQ>> \o cmd \o <<DQ, NL>>)
            /\ result.dialect = Fish =>
                   \A i \in LineStarts(out) : out[i] \in {"set", "gh"}
            /\ result.dialect # Fish =>
                   \A i \in LineStarts(out) : out[i] \in {"export", "unset", "gh"}

\* C21 witness: the fish hook has formatted an environment with a
\* signing-key command, and the statement for it is in the output.
C21_Witness ==
    /\ Formatted /\ result.by = "formatOutput" /\ result.dialect = Fish
    /\ query.env.GHSSHCommand = SSHCommand
    /\ SSHLines(result.out) # {}

\* The lines of a projection that call gh auth switch.
AuthSwitchLines(text) ==
    {i \in LineStarts(text) : StartsWith(text, i, <<"gh", SP, "auth", SP, "switch">>)}

\* C22: token strategy. The statements of the hook and of switch hold no
\* call of gh auth switch; they export GH_TOKEN, holding the account's
\* token, in the dialect's form; and switch returns an error when the token
\* of the account cannot be obtained.
C22_TokenStrategy ==
    Formatted =>
        LET out == result.out
            head == IF result.dialect = Fish THEN FishSet("GH_TOKEN")
                    ELSE PosixExport("GH_TOKEN")
        IN  /\ AuthSwitchLines(out) = {}
            /\ \E i \in LineStarts(out) :
                   StartsWith(out, i, head \o Quote(query.env.GHToken) \o <<NL>>)
            /\ (result.by = "runSwitch" /\ result.tokenErr) => result.err

---------------------------------------------------------------------------
(* The hook binary: hook.Resolve and main of gh-identity-hook *)

\* The gh_user of a profile of profiles.yml.
AccountOf(name) == IF name = "work" THEN "acme" ELSE "me"

\* The Profile stored under a name; "work" has an ssh_key, "personal" none.
\* A name, an account, a git name and an address are one token each.
ProfileOf(name) ==
    [GHUser |-> <<AccountOf(name)>>, GitName |-> <<"n">>, GitEmail |-> <<"e">>,
     SSHKey |-> IF name = "work" THEN <<"~", "/", "k">> ELSE <<>>]

\* The EnvOutput that hook.Resolve and runSwitch build from a profile.
EnvOf(name, home) ==
    LET p == ProfileOf(name)
        k == ExpandPath(p.SSHKey, home)
    IN  [GHUser |-> p.GHUser, GitAuthorName |-> p.GitName, GitAuthorEmail |-> p.GitEmail,
         GitCommitterName |-> p.GitName, GitCommitterEmail |-> p.GitEmail,
         GHIdentityProfile |-> <<name>>,
         GHSSHCommand |-> IF p.SSHKey # <<>> /\ ~k.err
                          THEN <<"ssh", SP, "-i", SP>> \o k.path
                                   \o <<SP, "-o", SP, "IdentitiesOnly=yes">>
                          ELSE <<>>]

\* ResolveFrom with the error of GetProfile dropped: a name that is not
\* stored is formatted with its zero Profile.
ResolveFromZeroProfile(r, shell, ps, home) ==
    IF r.err THEN [err |-> TRUE, out |-> <<>>]
    ELSE IF r.Profile = "" THEN [err |-> FALSE, out |-> <<>>]
    ELSE [err |-> FALSE,
          out |-> CHOOSE t \in {formatOutput(shell, env) :
                                   env \in {EnvOf(r.Profile, home)}} : TRUE]

\* hook.Resolve after the call of ForDirectory has returned r: the empty
\* profile name, GetProfile, the EnvOutput and formatOutput.
ResolveFrom(r, shell, ps, home) ==
    IF r.err THEN [err |-> TRUE, out |-> <<>>]
    ELSE IF r.Profile = "" THEN [err |-> FALSE, out |-> <<>>]
    ELSE IF r.Profile \notin ps THEN [err |-> TRUE, out |-> <<>>]
    ELSE [err |-> FALSE,
          out |-> CHOOSE t \in {formatOutput(shell, env) :
                                   env \in {EnvOf(r.Profile, home)}} : TRUE]

\* hook.Resolve(dir, shell) on the documents ps (profile names), def and bs:
\* the returned text and whether an error is returned.
HookResolve(dir, shell, ps, def, bs, fault) ==
    IF fault = FLoadProfiles THEN [err |-> TRUE, out |-> <<>>]
    ELSE IF fault = FLoadBindings THEN [err |-> TRUE, out |-> <<>>]
    ELSE CHOOSE o \in {ResolveFrom(r, shell, ps, HomeOf(fault)) :
                          r \in {ForDirectory(dir, bs, def, HomeOf(fault))}} : TRUE

\* main of gh-identity-hook, the working directory known: an error of
\* Resolve goes to standard error and the exit status is 0; otherwise the
\* text is printed.
hookMain(dir, shell, ps, def, bs, fault) ==
    CHOOSE m \in {[stdout |-> IF r.err THEN <<>> ELSE r.out, stderr |-> r.err, status |-> 0] :
                     r \in {HookResolve(dir, shell, ps, def, bs, fault)}} : TRUE

---------------------------------------------------------------------------
(* Interactive shells with the hook: shell/hook.*, cmd.installShellHook *)

\* How the hook got into the shell: written by gh identity init, or the
\* script of shell/ sourced by hand.
ByInit == "gh identity init"

ByScript == "sourced shell/hook script"

\* When the installed text runs the hook binary. Fish, both ways: a
\* function --on-variable PWD. Bash and zsh by init: one eval line in the rc
\* file, which runs when the shell starts and never again. The bash script:
\* PROMPT_COMMAND, before every prompt. The zsh script: the chpwd hook.
OnPWD == "on every change of PWD"

OnStart == "when the shell starts only"

OnPrompt == "before every prompt"

Trigger(kind, install) ==
    IF kind = Fish THEN OnPWD
    ELSE IF install = ByInit THEN OnStart
    ELSE IF kind = Bash THEN OnPrompt
    ELSE OnPWD

\* The effect of one statement of evaluated text on a shell's exported
\* GH_TOKEN and GH_IDENTITY_PROFILE and on the active account of gh (the
\* accounts of all profiles are logged in, so gh auth switch succeeds).
EvalStatement(sh, st) ==
    IF Len(st) >= 2 /\ st[1] = <<"unset">> /\ st[2] = <<"GH_TOKEN">>
    THEN [sh EXCEPT !.token = <<>>]
    ELSE IF Len(st) >= 3 /\ st[1] = <<"set">> /\ st[2] = <<"-e">> /\ st[3] = <<"GH_TOKEN">>
    THEN [sh EXCEPT !.token = <<>>]
    ELSE IF Len(st) >= 5 /\ SubSeq(st, 1, 4) = << <<"gh">>, <<"auth">>, <<"switch">>, <<"--user">> >>
    THEN [sh EXCEPT !.active = st[5]]
    ELSE IF Len(st) = 2 /\ st[1] = <<"export">> /\ HasPrefix(st[2], <<"GH_IDENTITY_PROFILE", "=">>)
    THEN [sh EXCEPT !.profile = SubSeq(st[2], 3, Len(st[2]))]
    ELSE IF Len(st) = 2 /\ st[1] = <<"export">> /\ HasPrefix(st[2], <<"GH_TOKEN", "=">>)
    THEN [sh EXCEPT !.token = SubSeq(st[2], 3, Len(st[2]))]
    ELSE IF Len(st) = 4 /\ st[1] = <<"set">> /\ st[2] = <<"-gx">>
            /\ st[3] = <<"GH_IDENTITY_PROFILE">>
    THEN [sh EXCEPT !.profile = st[4]]
    ELSE IF Len(st) = 4 /\ st[1] = <<"set">> /\ st[2] = <<"-gx">> /\ st[3] = <<"GH_TOKEN">>
    THEN [sh EXCEPT !.token = st[4]]
    ELSE sh

RECURSIVE EvalStatements(_, _, _)
EvalStatements(sh, stmts, i) ==
    IF i > Len(stmts) THEN sh
    ELSE EvalStatements(EvalStatement(sh, stmts[i]), stmts, i + 1)

\* eval "$(...)" of a text in a shell with the given variables.
Eval(sh, text) ==
    CHOOSE r \in {EvalStatements(sh, stmts, 1) :
                      stmts \in {Statements(t) : t \in {text}}} : TRUE

\* The account a gh command uses: that of GH_TOKEN when the variable is
\* set, else the active account of gh's own configuration.
Effective(sh) == IF sh.token # <<>> THEN sh.token ELSE sh.active

\* The documents of the shells' user: two profiles, two bound directories
\* (/a/b to work, /a/bc to personal) and /a unbound.
ShellBindings ==
    << [path |-> PathAB, profile |-> "work"], [path |-> PathABC, profile |-> "personal"] >>

ShellDirs == {PathAB, PathABC, PathA}

Accounts == {<<AccountOf(n)>> : n \in ProfileNames}

NewShell(kind, install, dir) ==
    [kind |-> kind, install |-> install, cwd |-> dir, profile |-> <<>>, token |-> <<>>,
     pc |-> "hook", since |-> [cmd |-> "start", profile |-> ""], used |-> <<>>]

\* query holds the shells, result the state of gh: its active account, and
\* whether a hook run has changed it.
InitShellsCommon ==
    /\ profiles = ProfileNames
    /\ bindings = ShellBindings
    /\ gitconfig = Absent
    /\ fragments = {}
    /\ last = NoOp
    /\ result \in [active : Accounts, hookChanged : {FALSE}]

\* Where a shell goes after a command: to its hook when the prompt runs it.
AfterCommand(sh) == IF Trigger(sh.kind, sh.install) = OnPrompt THEN "hook" ELSE "prompt"

Evaluated(s, text) ==
    Eval([profile |-> query[s].profile, token |-> query[s].token, active |-> result.active],
         text)

\* The hook runs in shell s and the shell evaluates what it prints.
ShellHook(s) ==
    /\ query[s].pc = "hook"
    /\ \E e \in {Evaluated(s, hookMain(query[s].cwd, query[s].kind, profiles,
                                       defaultProfile, bindings, FNone).stdout)} :
           /\ query' = [query EXCEPT ![s].profile = e.profile, ![s].token = e.token,
                                     ![s].pc = "prompt"]
           /\ result' = [active |-> e.active,
                         hookChanged |-> result.hookChanged \/ e.active # result.active]
    /\ UNCHANGED <<profiles, defaultProfile, bindings, gitconfig, fragments, last>>

\* cd to another directory in shell s.
ShellCd(s) ==
    /\ query[s].pc = "prompt"
    /\ \E d \in ShellDirs \ {query[s].cwd} :
           query' = [query EXCEPT
                        ![s].cwd = d,
                        ![s].used = <<>>,
                        ![s].since = [cmd |-> IF @.cmd = "switch" THEN "cd after switch"
                                              ELSE "cd",
                                      profile |-> ""],
                        ![s].pc = IF Trigger(query[s].kind, query[s].install) = OnStart
                                  THEN "prompt" ELSE "hook"]
    /\ UNCHANGED <<profiles, defaultProfile, bindings, gitconfig, fragments, result, last>>

\* eval "$(gh identity switch name)" in shell s.
ShellSwitch(s) ==
    /\ query[s].pc = "prompt"
    /\ \E name \in profiles :
           \E e \in {Evaluated(s, runSwitch(EnvOf(name, HomeDir)))} :
               /\ query' = [query EXCEPT
                               ![s].profile = e.profile, ![s].token = e.token,
                               ![s].used = <<>>,
                               ![s].since = [cmd |-> "switch", profile |-> name],
                               ![s].pc = AfterCommand(query[s])]
               /\ result' = [result EXCEPT !.active = e.active]
    /\ UNCHANGED <<profiles, defaultProfile, bindings, gitconfig, fragments, last>>

\* A gh command in shell s; used records the account it ran as.
ShellGh(s) ==
    /\ query[s].pc = "prompt"
    /\ query' = [query EXCEPT
                    ![s].used = Effective([token |-> query[s].token,
                                           active |-> result.active]),
                    ![s].pc = AfterCommand(query[s])]
    /\ UNCHANGED <<profiles, defaultProfile, bindings, gitconfig, fragments, result, last>>

\* One shell: directory changes, manual switches and gh commands.
InitShell ==
    /\ InitShellsCommon
    /\ defaultProfile \in {"", "personal"}
    /\ query \in [{1} -> {NewShell(k, i, d) : k \in Shells, i \in {ByInit, ByScript},
                                             d \in ShellDirs}]

Hook == \E s \in DOMAIN query : ShellHook(s)

Cd == \E s \in DOMAIN query : ShellCd(s)

SwitchEval == \E s \in DOMAIN query : ShellSwitch(s)

Gh == \E s \in DOMAIN query : ShellGh(s)

NextShell == Hook \/ Cd \/ SwitchEval \/ Gh

SpecShell == InitShell /\ [][NextShell]_vars

\* Two shells, one in a directory bound to work and one in a directory
\* bound to personal: their hook runs and gh commands in any order.
InitShells ==
    /\ InitShellsCommon
    /\ defaultProfile = ""
    /\ query \in {<<NewShell(k1, i1, PathAB), NewShell(k2, i2, PathABC)>> :
                     k1 \in Shells, k2 \in Shells,
                     i1 \in {ByInit, ByScript}, i2 \in {ByInit, ByScript}}

NextShells == Hook \/ Gh

SpecShells == InitShells /\ [][NextShells]_vars

---------------------------------------------------------------------------
(* Properties of the shells *)

\* The profile resolution gives for the directory of shell s.
ResolvedFor(s) == ForDirectory(query[s].cwd, bindings, defaultProfile, HomeDir).Profile

\* C23: per-shell isolation. A gh command of a shell whose hook has set it
\* to the profile of its directory runs as the account of that profile,
\* whatever the other shell has done in between, and no hook run changes
\* the active account of gh, which all shells share.
C23_PerShellIsolation ==
    /\ \A s \in DOMAIN query :
           (/\ query[s].since.cmd # "switch"
            /\ ResolvedFor(s) \in profiles
            /\ query[s].profile = <<ResolvedFor(s)>>
            /\ query[s].used # <<>>)
               => query[s].used = <<AccountOf(ResolvedFor(s))>>
    /\ ~result.hookChanged

\* The value of GH_IDENTITY_PROFILE that stands for a resolved name.
ProfileVar(name) == IF name = "" THEN <<>> ELSE <<name>>

\* A shell is at its prompt, its last change of directory and the hook run
\* that the change set off (if any) behind it.
AfterCd(s) == query[s].pc = "prompt" /\ query[s].since.cmd \in {"cd", "cd after switch"}

\* C24: the hook fires on every directory change. In a fish, bash or zsh
\* shell whose hook gh identity init installed, once a directory change is
\* done and the shell takes its next command, GH_IDENTITY_PROFILE is the
\* profile resolved for the new working directory.
C24_HookOnEveryCd ==
    \A s \in DOMAIN query :
        (query[s].install = ByInit /\ AfterCd(s))
            => query[s].profile = ProfileVar(ResolvedFor(s))

\* C25: a manual switch lasts until the next directory change. While a
\* shell that evaluated the output of switch P has not changed directory,
\* its profile at every prompt is P; and after the first directory change
\* that follows, the profile is the one the binding or the default gives
\* the new directory.
C25_SwitchUntilCd ==
    \A s \in DOMAIN query :
        /\ (query[s].pc = "prompt" /\ query[s].since.cmd = "switch")
               => query[s].profile = <<query[s].since.profile>>
        /\ (query[s].pc = "prompt" /\ query[s].since.cmd = "cd after switch"
                /\ ResolvedFor(s) # "")
               => query[s].profile = <<ResolvedFor(s)>>

---------------------------------------------------------------------------
(* Profile store: config.ProfilesFile *)

\* A ProfilesFile is [Profiles, Default]: Profiles maps names to profiles
\* (here their gh_user), Default is a name or "".
GHUsers == {"acme", "me"}

ProfilesFiles ==
    [Profiles : UNION {[ns -> GHUsers] : ns \in SUBSET ProfileNames},
     Default : ProfileNames \cup {""}]

\* ProfilesFile.AddProfile
AddProfile(pf, name, p) ==
    [pf EXCEPT !.Profiles = [n \in DOMAIN @ \cup {name} |-> IF n = name THEN p ELSE @[n]]]

\* RemoveProfile without the reset of Default.
RemoveProfileKeepDefault(pf, name) ==
    IF name \notin DOMAIN pf.Profiles THEN [err |-> TRUE, pf |-> pf]
    ELSE [err |-> FALSE,
          pf |-> [pf EXCEPT !.Profiles = [n \in DOMAIN @ \ {name} |-> @[n]]]]

\* ProfilesFile.RemoveProfile: the error and the file after the call.
RemoveProfile(pf, name) ==
    IF name \notin DOMAIN pf.Profiles THEN [err |-> TRUE, pf |-> pf]
    ELSE [err |-> FALSE,
          pf |-> [Profiles |-> [n \in DOMAIN pf.Profiles \ {name} |-> pf.Profiles[n]],
                  Default |-> IF pf.Default = name THEN "" ELSE pf.Default]]

\* The store on its own: profiles holds the map, defaultProfile the default,
\* and any default, a dangling one included, may have been loaded.
InitProfiles ==
    /\ \E pf \in ProfilesFiles : profiles = pf.Profiles /\ defaultProfile = pf.Default
    /\ bindings = <<>>
    /\ gitconfig = Absent
    /\ fragments = {}
    /\ query = [dir |-> Root, home |-> HomeDir]
    /\ result = NoResult
    /\ last = NoOp

PfAdd ==
    /\ last.n < MaxOps
    /\ \E name \in ProfileNames, p \in GHUsers :
           LET pf == AddProfile([Profiles |-> profiles, Default |-> defaultProfile], name, p)
           IN  /\ profiles' = pf.Profiles
               /\ defaultProfile' = pf.Default
               /\ last' = [op |-> "AddProfile", name |-> name, err |-> FALSE,
                           pre |-> [Profiles |-> profiles, Default |-> defaultProfile],
                           n |-> last.n + 1]
    /\ UNCHANGED <<bindings, gitconfig, fragments, query, result>>

PfRemove ==
    /\ last.n < MaxOps
    /\ \E name \in ProfileNames :
           LET r == RemoveProfile([Profiles |-> profiles, Default |-> defaultProfile], name)
           IN  /\ profiles' = r.pf.Profiles
               /\ defaultProfile' = r.pf.Default
               /\ last' = [op |-> "RemoveProfile", name |-> name, err |-> r.err,
                           pre |-> [Profiles |-> profiles, Default |-> defaultProfile],
                           n |-> last.n + 1]
    /\ UNCHANGED <<bindings, gitconfig, fragments, query, result>>

NextProfiles == PfAdd \/ PfRemove

SpecProfiles == InitProfiles /\ [][NextProfiles]_vars

\* C26: default cleared on removal. RemoveProfile of a stored name deletes
\* that profile and no other, and the default becomes empty if it was that
\* name and stays as it was otherwise; RemoveProfile of a name that is not
\* stored returns an error and changes nothing.
C26_DefaultCleared ==
    last.op = "RemoveProfile" =>
        IF last.name \in DOMAIN last.pre.Profiles
        THEN /\ ~last.err
             /\ DOMAIN profiles = DOMAIN last.pre.Profiles \ {last.name}
             /\ \A n \in DOMAIN profiles : profiles[n] = last.pre.Profiles[n]
             /\ defaultProfile = IF last.pre.Default = last.name THEN "" ELSE last.pre.Default
        ELSE /\ last.err
             /\ profiles = last.pre.Profiles
             /\ defaultProfile = last.pre.Default

\* C26 witness: the default profile has been removed while another profile
\* is stored; the default is empty and the other profile is still there.
C26_Witness ==
    /\ last.op = "RemoveProfile" /\ ~last.err
    /\ last.pre.Default = last.name
    /\ defaultProfile = ""
    /\ DOMAIN profiles # {}

---------------------------------------------------------------------------
(* The hook binary on its own: any documents, one run *)

\* Binding documents the hook may load: none, one binding, two bindings
\* (one with a ~ path), a binding with an empty profile name.
HookBindings ==
    { <<>>,
      <<[path |-> PathAB, profile |-> "work"]>>,
      <<[path |-> PathA, profile |-> "personal"],
        [path |-> <<"~", "/", "b">>, profile |-> "work"]>>,
      <<[path |-> PathAB, profile |-> ""]>> }

\* Working directories of the hook process (os.Getwd gives absolute paths).
HookDirs == {PathA, PathAB, PathABX}

HookFaults == {FNone, FNoHome, FLoadProfiles, FLoadBindings}

\* profiles holds the stored names; a default or a binding may name a
\* profile that is not stored.
InitHookMain ==
    /\ profiles \in SUBSET ProfileNames
    /\ defaultProfile \in ProfileNames \cup {""}
    /\ bindings \in HookBindings
    /\ query \in [dir : HookDirs, shell : Shells, fault : HookFaults]
    /\ result = NoResult
    /\ last = NoOp
    /\ gitconfig = Absent
    /\ fragments = {}

\* One run of gh-identity-hook: what Resolve returns and what main does
\* with it.
RunHook ==
    /\ result = NoResult
    /\ \E r \in {HookResolve(query.dir, query.shell, profiles, defaultProfile, bindings,
                             query.fault)},
          m \in {hookMain(query.dir, query.shell, profiles, defaultProfile, bindings,
                          query.fault)} :
           result' = [err |-> r.err, out |-> r.out, stdout |-> m.stdout,
                      status |-> m.status]
    /\ UNCHANGED <<profiles, defaultProfile, bindings, gitconfig, fragments, query, last>>

NextHookMain == RunHook

SpecHookMain == InitHookMain /\ [][NextHookMain]_vars

\* What resolution yields for the hook's directory.
HookResolution ==
    ForDirectory(query.dir, bindings, defaultProfile, HomeOf(query.fault))

DocumentsLoad == query.fault \notin {FLoadProfiles, FLoadBindings}

\* C27: hook outcome by resolution result. With the documents loaded (or
\* absent): when resolution yields the empty profile name, Resolve returns
\* the empty text and no error; when it yields a name that is not stored,
\* Resolve returns an error and no text, and the binary prints nothing to
\* standard output and exits with status 0.
C27_HookOutcome ==
    (result # NoResult /\ DocumentsLoad /\ ~HookResolution.err) =>
        /\ HookResolution.Profile = "" => (~result.err /\ result.out = <<>>)
        /\ (HookResolution.Profile # "" /\ HookResolution.Profile \notin profiles)
               => /\ result.err /\ result.out = <<>>
                  /\ result.stdout = <<>> /\ result.status = 0

\* C27 witness: the default names a profile that is not stored, no binding
\* matches, and the hook has run: an error, nothing printed, status 0.
C27_Witness ==
    /\ result # NoResult /\ query.fault = FNone
    /\ bindings = <<>> /\ defaultProfile = "work" /\ profiles = {"personal"}
    /\ result.err /\ result.stdout = <<>> /\ result.status = 0

---------------------------------------------------------------------------
(* Two bind invocations at the same time (cmd.runBind, no file locking) *)

\* The two processes running gh identity bind.
Binders == {1, 2}

\* Directories given to the two invocations.
BindDirs == {PathA, PathAB, PathABC}

\* The binding document an invocation saves: AddBinding on the document it
\* loaded. The variant adds to the document as it is on disk at the time of
\* the save, as a locked load / modify / save would.
BindSavedLocked(loaded, dirPath, profileName) ==
    AddBinding(bindings, dirPath, profileName, HomeDir).bindings

BindSaved(loaded, dirPath, profileName) ==
    AddBinding(loaded, dirPath, profileName, HomeDir).bindings

\* The global gitconfig an invocation writes: AddIncludeIf on the lines it
\* read.
BindWritten(lines, dirPath, profileName) ==
    writeLines(AddIncludeIfLines(lines, dirPath, FragmentPath(profileName)))

\* An invocation before its first step.
NewBinder(dirPath, profileName) ==
    [pc |-> "start", dir |-> dirPath, profile |-> profileName, loaded |-> <<>>, lines |-> <<>>]

\* Both profiles exist with their fragments, nothing is bound; the two
\* invocations get different directories.
InitBinds ==
    /\ profiles = ProfileNames
    /\ fragments = ProfileNames
    /\ defaultProfile = ""
    /\ bindings = <<>>
    /\ gitconfig \in {Absent, UserGitconfig}
    /\ \E d1 \in BindDirs, d2 \in BindDirs, n1 \in ProfileNames, n2 \in ProfileNames :
           /\ d1 # d2
           /\ query = [p \in Binders |-> IF p = 1 THEN NewBinder(d1, n1)
                                         ELSE NewBinder(d2, n2)]
    /\ result = NoResult
    /\ last = [op |-> "none", n |-> 0, saver |-> 0, writer |-> 0,
               lostSave |-> FALSE, lostWrite |-> FALSE]

\* runBind up to config.LoadBindings: the profile is found, the path is
\* expanded, the binding document is read.
BindLoadBindings(p) ==
    /\ query[p].pc = "start"
    /\ query[p].profile \in profiles
    /\ \E e \in {ExpandPath(query[p].dir, HomeDir)} :
           /\ ~e.err
           /\ query' = [query EXCEPT ![p].pc = "loaded", ![p].dir = e.path,
                                     ![p].loaded = bindings]
    /\ UNCHANGED <<profiles, defaultProfile, bindings, gitconfig, fragments, result, last>>

\* bindings.AddBinding and bindings.Save: the whole document is rewritten
\* from the copy in memory.
BindSaveBindings(p) ==
    /\ query[p].pc = "loaded"
    /\ bindings' = BindSaved(query[p].loaded, query[p].dir, query[p].profile)
    /\ query' = [query EXCEPT ![p].pc = "saved"]
    /\ last' = [last EXCEPT !.op = "save", !.saver = p,
                            !.lostSave = @ \/ query[p].loaded # bindings]
    /\ UNCHANGED <<profiles, defaultProfile, gitconfig, fragments, result>>

\* gitconfig.WriteProfileFragment
BindWriteFragment(p) ==
    /\ query[p].pc = "saved"
    /\ fragments' = fragments \cup {query[p].profile}
    /\ query' = [query EXCEPT ![p].pc = "fragment"]
    /\ UNCHANGED <<profiles, defaultProfile, bindings, gitconfig, result, last>>

\* readLines of AddIncludeIf
BindReadGitconfig(p) ==
    /\ query[p].pc = "fragment"
    /\ query' = [query EXCEPT ![p].pc = "read",
                              ![p].lines = IF gitconfig = Absent THEN <<>>
                                           ELSE readLines(gitconfig)]
    /\ UNCHANGED <<profiles, defaultProfile, bindings, gitconfig, fragments, result, last>>

\* writeLines of AddIncludeIf; the invocation ends with success.
BindWriteGitconfig(p) ==
    /\ query[p].pc = "read"
    /\ gitconfig' = BindWritten(query[p].lines, query[p].dir, query[p].profile)
    /\ query' = [query EXCEPT ![p].pc = "done"]
    /\ last' = [last EXCEPT !.op = "write", !.writer = p,
                            !.lostWrite = @ \/ query[p].lines #
                                (IF gitconfig = Absent THEN <<>> ELSE readLines(gitconfig))]
    /\ UNCHANGED <<profiles, defaultProfile, bindings, fragments, result>>

StepLoad == \E p \in Binders : BindLoadBindings(p)

StepSave == \E p \in Binders : BindSaveBindings(p)

StepFragment == \E p \in Binders : BindWriteFragment(p)

StepRead == \E p \in Binders : BindReadGitconfig(p)

StepWrite == \E p \in Binders : BindWriteGitconfig(p)

NextBinds == StepLoad \/ StepSave \/ StepFragment \/ StepRead \/ StepWrite

SpecBinds == InitBinds /\ [][NextBinds]_vars

---------------------------------------------------------------------------
(* Properties of two binds at the same time *)

BothDone == \A p \in Binders : query[p].pc = "done"

BinderDirs == {WithSlash(query[p].dir) : p \in Binders}

\* C30 as stated: concurrent binds keep the stores consistent. After two
\* bind invocations for different directories have both completed with
\* success, in every interleaving the directories with a managed includeIf
\* directive are the paths of the binding store.
C30_ConcurrentBindsConsistent == BothDone => ManagedDirSet = BoundDirSet

\* C30 amended: last writer wins. After both invocations have completed, the
\* binding store holds both directories unless an invocation saved a
\* document it had loaded before the other's save: then it holds only the
\* directory of the invocation that saved last. In the same way the managed
\* directives are those of both directories unless an invocation wrote lines
\* it had read before the other's write: then only the directory of the
\* invocation that wrote last has one. The two sets are equal when neither
\* happened.
C30_LastWriterWins ==
    BothDone =>
        /\ BoundDirSet = IF last.lostSave THEN {WithSlash(query[last.saver].dir)}
                         ELSE BinderDirs
        /\ ManagedDirSet = IF last.lostWrite THEN {WithSlash(query[last.writer].dir)}
                           ELSE BinderDirs
        /\ (~last.lostSave /\ ~last.lostWrite) => ManagedDirSet = BoundDirSet

\* C30 witness: both invocations have completed, the second save overwrote
\* the first one's binding, and both directives are in the global gitconfig:
\* a directive without a binding.
C30_Witness ==
    /\ BothDone
    /\ last.lostSave /\ ~last.lostWrite
    /\ Len(bindings) = 1
    /\ Cardinality(ManagedDirSet) = 2
    /\ BoundDirSet # ManagedDirSet

====
